---- MODULE Spec2Model ----
(***************************************************************************)
(* A model of the agent execution engine of OpenManus: the agent state     *)
(* machine of app/agent/base.py (run, state_context, is_stuck,             *)
(* handle_stuck_state, update_memory), the think/act step of               *)
(* app/agent/react.py and the conversational Memory of app/schema.py.      *)
(***************************************************************************)
EXTENDS Integers, Sequences, FiniteSets, TLC

(***************************************************************************)
(* Bounds of the model.                                                    *)
(***************************************************************************)
\* largest max_steps an agent is constructed with
MaxSteps == 3
\* largest duplicate_threshold an agent is constructed with
MaxThreshold == 2
\* capacity (max_messages) of the Memory the agent is constructed with
MaxMessages == 3

\* Memory on its own: capacities 0..MaxCapacity, at most MaxAdded messages
\* appended between two clear() calls, batches of at most MaxBatch messages,
\* get_recent_messages(n) for n in 0..MaxRecent
MaxCapacity == 2

MaxAdded == 4

MaxBatch == 2

MaxRecent == 3

\* ToolCollection on its own: at most MaxTools tools in the tuple
MaxTools == 3

(***************************************************************************)
(* Values.                                                                 *)
(***************************************************************************)
\* Python's None, where an Optional[str] holds no text
None == "<None>"

\* AgentState (schema.py): the four members of the enumeration
AgentState == {"IDLE", "RUNNING", "FINISHED", "ERROR"}

\* the Literal of Message.role
Roles == {"system", "user", "assistant", "tool"}

\* message texts of the model: two distinct non-empty texts and the empty one
Texts == {"X", "Y", ""}

\* Message.content: Optional[str]
Contents == Texts \cup {None}

\* Message (schema.py), restricted to the fields the agent reads
Message == [role : Roles, content : Contents]

\* Python truthiness of an Optional[str]: None and "" are falsy
Truthy(s) == s # None /\ s # ""

\* Message.user_message(content)
user_message(content) == [role |-> "user", content |-> content]

\* Message.system_message(content)
system_message(content) == [role |-> "system", content |-> content]

\* Message.assistant_message(content=None)
assistant_message(content) == [role |-> "assistant", content |-> content]

\* Message.tool_message(content, name, tool_call_id); name and id not modelled
tool_message(content) == [role |-> "tool", content |-> content]

(***************************************************************************)
(* Python sequence helpers.                                                *)
(***************************************************************************)
\* s[-n:] for n >= 0: the last min(n, len) elements, and ALL of s for n = 0
\* (-0 is 0, so s[-0:] is s[0:])
SliceLast(s, n) ==
    IF n = 0 \/ n >= Len(s) THEN s ELSE SubSeq(s, Len(s) - n + 1, Len(s))

\* s[:-1]: all but the last element
ButLast(s) == IF Len(s) = 0 THEN s ELSE SubSeq(s, 1, Len(s) - 1)

\* a bug: the message is appended and nothing is evicted
add_message_NoTrim(messages, cap, m) == Append(messages, m)

\* Memory.add_message: append, then keep the last max_messages when over it
add_message(messages, cap, m) ==
    LET appended == Append(messages, m)
    IN  IF Len(appended) > cap THEN SliceLast(appended, cap) ELSE appended

(***************************************************************************)
(* Stuck-loop detection and remedy (BaseAgent).                            *)
(***************************************************************************)
\* the generator of is_stuck's sum(): walks s newest-to-oldest and counts the
\* assistant messages whose content equals the reference content
RECURSIVE duplicate_count(_, _)
duplicate_count(s, content) ==
    IF Len(s) = 0 THEN 0
    ELSE LET msg == s[Len(s)]
         IN  (IF msg.role = "assistant" /\ msg.content = content THEN 1 ELSE 0)
             + duplicate_count(ButLast(s), content)

\* a bug: stuck only when the repeats exceed the threshold
is_stuck_Exceeds(msgs, threshold) ==
    IF Len(msgs) < 2 THEN FALSE
    ELSE LET last_message == msgs[Len(msgs)]
         IN  IF ~Truthy(last_message.content) THEN FALSE
             ELSE duplicate_count(ButLast(msgs), last_message.content) > threshold

\* BaseAgent.is_stuck
is_stuck(msgs, threshold) ==
    IF Len(msgs) < 2 THEN FALSE
    ELSE LET last_message == msgs[Len(msgs)]
         IN  IF ~Truthy(last_message.content) THEN FALSE
             ELSE duplicate_count(ButLast(msgs), last_message.content) >= threshold

\* the one-line stuck_prompt literal of handle_stuck_state
stuck_prompt == "stuck_prompt"

\* how an f-string renders next_step_prompt: None becomes the text "None"
Format(prompt) == IF prompt = <<None>> THEN <<"None">> ELSE prompt

\* a bug: the instruction is put after the prompt instead of before it
handle_stuck_state_Appends(prompt) == Format(prompt) \o <<stuck_prompt>>

\* BaseAgent.handle_stuck_state: f"{stuck_prompt}\n{self.next_step_prompt}"
handle_stuck_state(prompt) == <<stuck_prompt>> \o Format(prompt)

(***************************************************************************)
(* The transcript of run().                                                *)
(***************************************************************************)
\* the text ReActAgent.step returns when think() returned false
NoAction == "no action needed"

\* texts act() returns
ActTexts == {"acted"}

\* a bug: the record is numbered with the counter before its increment
StepRecord_Before(n, text) == [kind |-> "step", n |-> n - 1, text |-> text]

\* f"step {current_step}: {step_result}"
StepRecord(n, text) == [kind |-> "step", n |-> n, text |-> text]

\* f"terminated: reached max steps ({max_steps})"
MaxStepsNotice(n) == [kind |-> "max_steps", n |-> n, text |-> ""]

\* the literal run() returns for an empty results list
NoStepsExecuted == [kind |-> "no_steps", n |-> 0, text |-> ""]

\* "\n".join(results) if results else <literal>, as the sequence of its lines
Transcript(res) == IF res # <<>> THEN res ELSE <<NoStepsExecuted>>

\* what a run() call gives its caller
NoReturn == [kind |-> "none", value |-> <<>>, error |-> ""]
Returned(lines) == [kind |-> "return", value |-> lines, error |-> ""]
Raised(e) == [kind |-> "raise", value |-> <<>>, error |-> e]

(***************************************************************************)
(* State.                                                                  *)
(***************************************************************************)
VARIABLES
    state,               \* BaseAgent.state
    current_step,        \* BaseAgent.current_step
    max_steps,           \* BaseAgent.max_steps
    duplicate_threshold, \* BaseAgent.duplicate_threshold
    next_step_prompt,    \* BaseAgent.next_step_prompt, as its sequence of lines
    messages,            \* BaseAgent.memory.messages
    max_messages,        \* BaseAgent.memory.max_messages
    pc,                  \* position of the run() coroutine in progress
    previous_state,      \* state_context's local previous_state
    results,             \* run's local results
    step_result,         \* run's local step_result
    exc,                 \* the exception in flight through state_context
    ret,                 \* what the last exited run() call gave its caller
    should_act,          \* step's local should_act
    step_calls,          \* step() calls made by the last started run()
    think_calls,         \* think() calls made by the step in progress
    act_calls,           \* act() calls made by the step in progress
    warnings,            \* logger.warning calls of handle_stuck_state
    stuck_ret,           \* what the last direct is_stuck() call returned
    added,               \* the messages given to Memory.add_message so far
    mem_call,            \* the last call on the Memory and what it returned
    tools,               \* ToolCollection.tools
    tool_map,            \* ToolCollection.tool_map
    tool_call,           \* the last call on the ToolCollection and its outcome
    executed,            \* the tools that call executed, in order
    plans,               \* PlanningTool.plans
    current_plan_id,     \* PlanningTool._current_plan_id
    plan_call,           \* the last PlanningTool command and its outcome
    llm_call,            \* the LLM.ask / ask_tool call in progress or last made
    merge_call,          \* the last ToolResult.__add__ and its outcome
    instances,           \* LLM._instances
    llm_new              \* the last LLM(...) construction and what it returned

vars == <<state, current_step, max_steps, duplicate_threshold, next_step_prompt,
          messages, max_messages, pc, previous_state, results, step_result, exc,
          ret, should_act, step_calls, think_calls, act_calls, warnings, stuck_ret,
          added, mem_call, tools, tool_map, tool_call, executed,
          plans, current_plan_id, plan_call, llm_call, merge_call,
          instances, llm_new>>

agent_fields == <<state, current_step, max_steps, duplicate_threshold,
                  next_step_prompt, messages, max_messages>>

run_locals == <<pc, previous_state, results, step_result, should_act, exc>>

probes == <<step_calls, think_calls, act_calls, warnings>>

memory_probes == <<added, mem_call>>

registry_vars == <<tools, tool_map, tool_call, executed>>

ledger_vars == <<plans, current_plan_id, plan_call>>

singleton_vars == <<instances, llm_new>>

service_vars == <<plans, current_plan_id, plan_call, llm_call, merge_call,
                  instances, llm_new>>

\* a call record of a Memory or ToolCollection on which nothing was called
NoCall == [op |-> "none"]

\* no ToolCollection in use and no direct Memory call made
LibraryIdle ==
    /\ added = <<>>
    /\ mem_call = NoCall
    /\ tools = <<>>
    /\ tool_map = <<>>
    /\ tool_call = NoCall
    /\ executed = <<>>

\* no PlanningTool in use, no LLM call made and no ToolResult combined
ServicesIdle ==
    /\ plans = <<>>
    /\ current_plan_id = None
    /\ plan_call = NoCall
    /\ llm_call = NoCall
    /\ merge_call = NoCall
    /\ instances = <<>>
    /\ llm_new = NoCall

(***************************************************************************)
(* Inputs and the behaviour of the abstract think() and act().             *)
(***************************************************************************)
\* the request argument of run(): absent, empty or a text
Requests == {None, "", "X"}

\* what one think() leaves in Memory: nothing, or the model's reply
ThinkReplies == {<<>>, <<assistant_message("X")>>, <<assistant_message("Y")>>}

\* what one act() leaves in Memory: nothing, or one tool observation
ActReplies == {<<>>, <<tool_message("X")>>}

\* next_step_prompt at construction: unset (the field's default) or a text
InitialPrompts == {<<None>>, <<"P">>}

\* exceptions a think() or an act() raises
StepErrors == {"TimeoutError", "ValueError"}

\* where the run() coroutine is suspended (or absent) and other callers run:
\* the awaits inside think() and act()
SuspendPoints == {"idle", "think", "act"}

\* appending a (possibly empty) batch one add_message at a time
RECURSIVE add_each(_, _, _)
add_each(msgs, cap, batch) ==
    IF batch = <<>> THEN msgs
    ELSE add_each(add_message(msgs, cap, Head(batch)), cap, Tail(batch))

(***************************************************************************)
(* BaseAgent.run and BaseAgent.state_context.                              *)
(***************************************************************************)
\* a bug: the entry check turns away only an agent that is RUNNING
RunGuard_NotRunning(st) == st # "RUNNING"

\* run's entry check: only an IDLE agent may start
RunGuard(st) == st = "IDLE"

\* BaseAgent.update_memory with a role of message_map
update_memory(msgs, cap, role, content) ==
    add_message(msgs, cap,
        CASE role = "user" -> user_message(content)
          [] role = "system" -> system_message(content)
          [] role = "assistant" -> assistant_message(content)
          [] role = "tool" -> tool_message(content))

\* a bug: the loop condition lets one step too many through
LoopCondition_OffByOne(cs, ms, st) == cs <= ms /\ st # "FINISHED"

\* the while condition of run's loop
LoopCondition(cs, ms, st) == cs < ms /\ st # "FINISHED"

\* a bug: the notice only when the counter has run past the budget
NoticeCondition_Strict(cs, ms) == cs > ms

\* a bug: no notice for a run that a step declared finished
NoticeCondition_UnlessFinished(cs, ms) == cs >= ms /\ state # "FINISHED"

\* the condition under which run appends the max-steps notice
NoticeCondition(cs, ms) == cs >= ms

\* a bug: the finally block leaves the state as the run left it
RestoredState_Keep(prev, cur) == cur

\* the value state_context's finally block assigns to state
RestoredState(prev, cur) == prev

\* a bug: the except block re-raises without recording ERROR
ExceptState_Keep(cur) == cur

\* the value state_context's except block assigns to state
ExceptState(cur) == "ERROR"

\* a bug: state_context yields without recording the new state
EnteredState_Skip(cur, new_state) == cur

\* the value state_context assigns to state before it yields
EnteredState(cur, new_state) == new_state

\* a run() call that fails its entry check: RuntimeError, nothing touched
RunRejected(request) ==
    /\ pc \in SuspendPoints
    /\ ~RunGuard(state)
    /\ ret' = Raised("RuntimeError")
    /\ UNCHANGED <<agent_fields, run_locals, probes, stuck_ret>>
    /\ UNCHANGED <<memory_probes, registry_vars>>
    /\ UNCHANGED service_vars

\* a run() call on an IDLE agent, up to the first evaluation of the loop
\* condition: the request is stored, results is created, state_context is
\* entered
RunStart(request) ==
    /\ RunGuard(state)
    /\ pc = "idle"
    /\ messages' = IF Truthy(request)
                   THEN update_memory(messages, max_messages, "user", request)
                   ELSE messages
    /\ results' = <<>>
    /\ previous_state' = state
    /\ state' = EnteredState(state, "RUNNING")
    /\ pc' = "loop"
    /\ ret' = NoReturn
    /\ step_calls' = 0
    /\ UNCHANGED <<current_step, max_steps, duplicate_threshold, next_step_prompt,
                   max_messages, step_result, should_act, exc, think_calls, act_calls,
                   warnings, stuck_ret>>
    /\ UNCHANGED <<memory_probes, registry_vars>>
    /\ UNCHANGED service_vars

\* BaseAgent.run
run(request) == RunRejected(request) \/ RunStart(request)

\* a bug: a step takes two units of the budget
Advanced_Twice(cs) == cs + 2

\* self.current_step += 1
Advanced(cs) == cs + 1

\* the loop condition holds: current_step += 1 and step() is entered, with a
\* fresh frame (should_act not yet decided)
LoopEnter ==
    /\ pc = "loop"
    /\ LoopCondition(current_step, max_steps, state)
    /\ current_step' = Advanced(current_step)
    /\ step_calls' = step_calls + 1
    /\ think_calls' = 0
    /\ act_calls' = 0
    /\ should_act' = FALSE
    /\ pc' = "think"
    /\ UNCHANGED <<state, max_steps, duplicate_threshold, next_step_prompt, messages,
                   max_messages, previous_state, results, step_result, exc, ret,
                   warnings, stuck_ret>>
    /\ UNCHANGED <<memory_probes, registry_vars>>
    /\ UNCHANGED service_vars

\* the loop condition fails: the notice is appended when the budget is used up
LoopLeave ==
    /\ pc = "loop"
    /\ ~LoopCondition(current_step, max_steps, state)
    /\ results' = IF NoticeCondition(current_step, max_steps)
                  THEN Append(results, MaxStepsNotice(max_steps))
                  ELSE results
    /\ pc' = "exit"
    /\ UNCHANGED <<agent_fields, previous_state, step_result, should_act, exc, ret,
                   probes, stuck_ret>>
    /\ UNCHANGED <<memory_probes, registry_vars>>
    /\ UNCHANGED service_vars

\* a bug: step acts whatever think() decided
AfterThink_AlwaysAct(decision) == "act"

\* ReActAgent.step's branch on should_act: return the fixed text, or act
AfterThink(decision) == IF ~decision THEN "after_step" ELSE "act"

\* ReActAgent.step, first half: think() returns should_act (having possibly
\* replied into Memory and possibly set FINISHED); a false should_act makes
\* step return the fixed text, a true one goes on to act()
ThinkReturns(decision, reply, finish) ==
    /\ pc = "think"
    /\ think_calls' = think_calls + 1
    /\ messages' = add_each(messages, max_messages, reply)
    /\ state' = IF finish THEN "FINISHED" ELSE state
    /\ should_act' = decision
    /\ pc' = AfterThink(decision)
    /\ step_result' = IF AfterThink(decision) = "after_step" THEN NoAction
                      ELSE step_result
    /\ UNCHANGED <<current_step, max_steps, duplicate_threshold, next_step_prompt,
                   max_messages, previous_state, results, exc, ret, step_calls,
                   act_calls, warnings, stuck_ret>>
    /\ UNCHANGED <<memory_probes, registry_vars>>
    /\ UNCHANGED service_vars

\* think() raises: the exception leaves step() and the loop
ThinkRaises(e) ==
    /\ pc = "think"
    /\ think_calls' = think_calls + 1
    /\ exc' = e
    /\ pc' = "except"
    /\ UNCHANGED <<agent_fields, previous_state, results, step_result, should_act, ret,
                   step_calls, act_calls, warnings, stuck_ret>>
    /\ UNCHANGED <<memory_probes, registry_vars>>
    /\ UNCHANGED service_vars

\* ReActAgent.step, second half: act() returns the step's text
ActReturns(text, reply, finish) ==
    /\ pc = "act"
    /\ act_calls' = act_calls + 1
    /\ messages' = add_each(messages, max_messages, reply)
    /\ state' = IF finish THEN "FINISHED" ELSE state
    /\ step_result' = text
    /\ pc' = "after_step"
    /\ UNCHANGED <<current_step, max_steps, duplicate_threshold, next_step_prompt,
                   max_messages, previous_state, results, should_act, exc, ret,
                   step_calls, think_calls, warnings, stuck_ret>>
    /\ UNCHANGED <<memory_probes, registry_vars>>
    /\ UNCHANGED service_vars

\* act() raises
ActRaises(e) ==
    /\ pc = "act"
    /\ act_calls' = act_calls + 1
    /\ exc' = e
    /\ pc' = "except"
    /\ UNCHANGED <<agent_fields, previous_state, results, step_result, should_act, ret,
                   step_calls, think_calls, warnings, stuck_ret>>
    /\ UNCHANGED <<memory_probes, registry_vars>>
    /\ UNCHANGED service_vars

\* the rest of the loop body: the stuck check and the step's record
AfterStep ==
    /\ pc = "after_step"
    /\ IF is_stuck(messages, duplicate_threshold)
       THEN /\ next_step_prompt' = handle_stuck_state(next_step_prompt)
            /\ warnings' = warnings + 1
       ELSE UNCHANGED <<next_step_prompt, warnings>>
    /\ results' = Append(results, StepRecord(current_step, step_result))
    /\ pc' = "loop"
    /\ UNCHANGED <<state, current_step, max_steps, duplicate_threshold, messages,
                   max_messages, previous_state, step_result, should_act, exc, ret,
                   step_calls, think_calls, act_calls, stuck_ret>>
    /\ UNCHANGED <<memory_probes, registry_vars>>
    /\ UNCHANGED service_vars

\* state_context's except block
Except ==
    /\ pc = "except"
    /\ state' = ExceptState(state)
    /\ pc' = "finally"
    /\ UNCHANGED <<current_step, max_steps, duplicate_threshold, next_step_prompt,
                   messages, max_messages, previous_state, results, step_result,
                   should_act, exc, ret, probes, stuck_ret>>
    /\ UNCHANGED <<memory_probes, registry_vars>>
    /\ UNCHANGED service_vars

\* state_context's finally block on the exception path; run() raises and its
\* locals are gone
FinallyRaise ==
    /\ pc = "finally"
    /\ state' = RestoredState(previous_state, state)
    /\ ret' = Raised(exc)
    /\ pc' = "idle"
    /\ results' = <<>>
    /\ step_result' = ""
    /\ should_act' = FALSE
    /\ exc' = ""
    /\ think_calls' = 0
    /\ act_calls' = 0
    /\ UNCHANGED <<current_step, max_steps, duplicate_threshold, next_step_prompt,
                   messages, max_messages, previous_state, step_calls, warnings,
                   stuck_ret>>
    /\ UNCHANGED <<memory_probes, registry_vars>>
    /\ UNCHANGED service_vars

\* state_context's finally block on the normal path; run() returns the
\* transcript and its locals are gone
FinallyReturn ==
    /\ pc = "exit"
    /\ state' = RestoredState(previous_state, state)
    /\ ret' = Returned(Transcript(results))
    /\ pc' = "idle"
    /\ results' = <<>>
    /\ step_result' = ""
    /\ should_act' = FALSE
    /\ think_calls' = 0
    /\ act_calls' = 0
    /\ UNCHANGED <<current_step, max_steps, duplicate_threshold, next_step_prompt,
                   messages, max_messages, previous_state, exc, step_calls, warnings,
                   stuck_ret>>
    /\ UNCHANGED <<memory_probes, registry_vars>>
    /\ UNCHANGED service_vars

(***************************************************************************)
(* The agent specification.                                                *)
(***************************************************************************)
\* a constructed agent: any state, budget and step counter, an empty Memory
Init ==
    /\ state \in AgentState
    /\ max_steps \in 0..MaxSteps
    /\ current_step \in 0..(max_steps + 1)
    /\ duplicate_threshold \in 1..MaxThreshold
    /\ next_step_prompt \in InitialPrompts
    /\ messages = <<>>
    /\ max_messages = MaxMessages
    /\ pc = "idle"
    /\ previous_state = "IDLE"
    /\ results = <<>>
    /\ step_result = ""
    /\ exc = ""
    /\ ret = NoReturn
    /\ should_act = FALSE
    /\ step_calls = 0
    /\ think_calls = 0
    /\ act_calls = 0
    /\ warnings = 0
    /\ stuck_ret = "none"
    /\ LibraryIdle
    /\ ServicesIdle

Next ==
    \/ \E request \in Requests : RunRejected(request)
    \/ \E request \in Requests : RunStart(request)
    \/ LoopEnter
    \/ LoopLeave
    \/ \E decision \in BOOLEAN, reply \in ThinkReplies, finish \in BOOLEAN :
           ThinkReturns(decision, reply, finish)
    \/ \E e \in StepErrors : ThinkRaises(e)
    \/ \E text \in ActTexts, reply \in ActReplies, finish \in BOOLEAN :
           ActReturns(text, reply, finish)
    \/ \E e \in StepErrors : ActRaises(e)
    \/ AfterStep
    \/ Except
    \/ FinallyRaise
    \/ FinallyReturn

Spec == Init /\ [][Next]_vars

\* a freshly constructed agent with the default state and step counter, and
\* the most sensitive stuck detector
InitLive ==
    /\ Init
    /\ state = "IDLE"
    /\ current_step = 0
    /\ duplicate_threshold = 1
    /\ next_step_prompt = <<"P">>

\* the steps of a run in progress: the loop, the awaited think() and act(),
\* the exit through state_context
RunProgress ==
    \/ LoopEnter
    \/ LoopLeave
    \/ \E decision \in BOOLEAN, reply \in ThinkReplies, finish \in BOOLEAN :
           ThinkReturns(decision, reply, finish)
    \/ \E e \in StepErrors : ThinkRaises(e)
    \/ \E text \in ActTexts, reply \in ActReplies, finish \in BOOLEAN :
           ActReturns(text, reply, finish)
    \/ \E e \in StepErrors : ActRaises(e)
    \/ AfterStep
    \/ Except
    \/ FinallyRaise
    \/ FinallyReturn

\* the agent when every awaited think() and act() returns or raises and the
\* event loop keeps running the coroutine of run()
SpecLive == InitLive /\ [][Next]_vars /\ WF_vars(RunProgress)

(***************************************************************************)
(* The stuck-loop detector on its own: an idle agent whose Memory is       *)
(* filled through update_memory and whose is_stuck() is called directly.   *)
(***************************************************************************)
\* is_stuck's boolean as the value a caller sees
Bool(b) == IF b THEN "true" ELSE "false"

InitStuck ==
    /\ state = "IDLE"
    /\ max_steps = 0
    /\ current_step = 0
    /\ duplicate_threshold \in 0..MaxThreshold
    /\ next_step_prompt = <<None>>
    /\ messages = <<>>
    /\ max_messages = MaxMessages
    /\ pc = "idle"
    /\ previous_state = "IDLE"
    /\ results = <<>>
    /\ step_result = ""
    /\ exc = ""
    /\ ret = NoReturn
    /\ should_act = FALSE
    /\ step_calls = 0
    /\ think_calls = 0
    /\ act_calls = 0
    /\ warnings = 0
    /\ stuck_ret = "none"
    /\ LibraryIdle
    /\ ServicesIdle

\* a caller's BaseAgent.update_memory(role, content)
UpdateMemory(role, content) ==
    /\ messages' = update_memory(messages, max_messages, role, content)
    /\ stuck_ret' = "none"
    /\ UNCHANGED <<state, current_step, max_steps, duplicate_threshold,
                   next_step_prompt, max_messages, run_locals, ret, probes>>
    /\ UNCHANGED <<memory_probes, registry_vars>>
    /\ UNCHANGED service_vars

\* a caller's BaseAgent.is_stuck()
IsStuckCall ==
    /\ stuck_ret' = Bool(is_stuck(messages, duplicate_threshold))
    /\ UNCHANGED <<agent_fields, run_locals, ret, probes>>
    /\ UNCHANGED <<memory_probes, registry_vars>>
    /\ UNCHANGED service_vars

NextStuck ==
    \/ \E role \in Roles, content \in Contents : UpdateMemory(role, content)
    \/ IsStuckCall

SpecStuck == InitStuck /\ [][NextStuck]_vars

(***************************************************************************)
(* Memory on its own: a caller holding a Memory calls add_message,         *)
(* add_messages, clear and get_recent_messages in any order.  The agent    *)
(* that owns the Memory stays idle.                                        *)
(***************************************************************************)
\* Message.from_tool_calls: an assistant message carrying tool calls
from_tool_calls(tool_calls, content) ==
    [role |-> "assistant", content |-> content, tool_calls |-> tool_calls]

\* the tool_calls field of a message, None unless the constructor set it
ToolCallsOf(m) == IF "tool_calls" \in DOMAIN m THEN m.tool_calls ELSE None

\* Memory.add_messages: extend, with no look at max_messages
add_messages(msgs, batch) == msgs \o batch

\* Memory.clear
clear(msgs) == <<>>

\* Memory.get_recent_messages: messages[-n:], for n >= 0
get_recent_messages(msgs, n) == SliceLast(msgs, n)

\* what callers hand to add_message: the constructors' results, among them
\* assistant_message() with its default content
MemoryPool ==
    {user_message("X"), assistant_message(None), from_tool_calls("call", "")}

BatchPool == {user_message("X"), user_message("Y")}

\* the batches handed to add_messages: every sequence over BatchPool of
\* length 0..MaxBatch
Batches == UNION {[1..k -> BatchPool] : k \in 0..MaxBatch}

\* one entry of the log per message appended, by add_message or add_messages
Logged(by, batch) == [i \in 1..Len(batch) |-> [by |-> by, message |-> batch[i]]]

InitMemory ==
    /\ state = "IDLE"
    /\ max_steps = 0
    /\ current_step = 0
    /\ duplicate_threshold = 1
    /\ next_step_prompt = <<None>>
    /\ messages = <<>>
    /\ max_messages \in 0..MaxCapacity
    /\ pc = "idle"
    /\ previous_state = "IDLE"
    /\ results = <<>>
    /\ step_result = ""
    /\ exc = ""
    /\ ret = NoReturn
    /\ should_act = FALSE
    /\ step_calls = 0
    /\ think_calls = 0
    /\ act_calls = 0
    /\ warnings = 0
    /\ stuck_ret = "none"
    /\ LibraryIdle
    /\ ServicesIdle

\* memory.add_message(m)
AddMessage(m) ==
    /\ Len(added) < MaxAdded
    /\ messages' = add_message(messages, max_messages, m)
    /\ added' = added \o Logged("add_message", <<m>>)
    /\ mem_call' = [op |-> "add_message", message |-> m]
    /\ UNCHANGED <<state, current_step, max_steps, duplicate_threshold,
                   next_step_prompt, max_messages, run_locals, ret, probes,
                   stuck_ret, registry_vars>>
    /\ UNCHANGED service_vars

\* memory.add_messages(batch)
AddMessages(batch) ==
    /\ Len(added) + Len(batch) <= MaxAdded
    /\ messages' = add_messages(messages, batch)
    /\ added' = added \o Logged("add_messages", batch)
    /\ mem_call' = [op |-> "add_messages", batch |-> batch]
    /\ UNCHANGED <<state, current_step, max_steps, duplicate_threshold,
                   next_step_prompt, max_messages, run_locals, ret, probes,
                   stuck_ret, registry_vars>>
    /\ UNCHANGED service_vars

\* memory.clear()
Clear ==
    /\ messages' = clear(messages)
    /\ added' = <<>>
    /\ mem_call' = [op |-> "clear"]
    /\ UNCHANGED <<state, current_step, max_steps, duplicate_threshold,
                   next_step_prompt, max_messages, run_locals, ret, probes,
                   stuck_ret, registry_vars>>
    /\ UNCHANGED service_vars

\* memory.get_recent_messages(n)
GetRecentMessages(n) ==
    /\ mem_call' = [op |-> "get_recent_messages", n |-> n,
                    returned |-> get_recent_messages(messages, n)]
    /\ UNCHANGED <<agent_fields, run_locals, ret, probes, stuck_ret, added,
                   registry_vars>>
    /\ UNCHANGED service_vars

NextMemory ==
    \/ \E m \in MemoryPool : AddMessage(m)
    \/ \E batch \in Batches : AddMessages(batch)
    \/ Clear
    \/ \E n \in 0..MaxRecent : GetRecentMessages(n)

SpecMemory == InitMemory /\ [][NextMemory]_vars

(***************************************************************************)
(* ToolCollection on its own: a caller constructs a collection, registers  *)
(* further tools and calls execute, execute_all, get_tool and to_params.   *)
(* A tool is a name and a description; two tools of one name differ in     *)
(* their description, and a tool's output and error message are texts only *)
(* that tool produces.  What a tool's execute does on one call is the      *)
(* environment's choice: it returns its result, raises ToolError or        *)
(* raises something else.                                                  *)
(***************************************************************************)
ToolNames == {"a", "b"}

\* a name no tool carries
UnknownName == "z"

\* a tool: BaseTool's name and description
Tool(name, description) == [name |-> name, description |-> description]

\* the tools a caller registers: two that share the name a, and one named b
ToolPool == {Tool("a", "first"), Tool("a", "second"), Tool("b", "first")}

Behaviours == {"result", "ToolError", "ValueError"}

\* tool_input: left at its default None, or a dict of arguments
ToolInputs == {None, "{}"}

\* ToolResult(output=..., error=...)
ToolResult(output, error) == [output |-> output, error |-> error, system |-> None]

\* ToolFailure(error=...)
ToolFailure(error) == ToolResult(None, error)

\* an exception of class e carrying message
RaisedWith(e, message) == [kind |-> "raise", value |-> message, error |-> e]

\* the output of the ToolResult tool t returns
OutputOf(t) == t.description

\* the message of the exception tool t raises
ErrorMessage(t) == t.description

\* f"Tool {name} is invalid"
InvalidMessage(name) ==
    CASE name = "a" -> "Tool a is invalid"
      [] name = "b" -> "Tool b is invalid"
      [] name = "z" -> "Tool z is invalid"

\* one call of tool t: BaseTool.__call__, which is t.execute(**kwargs)
tool_call_outcome(t, behaviour) ==
    CASE behaviour = "result" -> Returned(ToolResult(OutputOf(t), None))
      [] behaviour = "ToolError" -> RaisedWith("ToolError", ErrorMessage(t))
      [] behaviour = "ValueError" -> RaisedWith("ValueError", ErrorMessage(t))

\* a bug: every exception is turned into a ToolFailure
CaptureToolError_Any(outcome) ==
    IF outcome.kind = "raise"
    THEN Returned(ToolFailure(outcome.value))
    ELSE outcome

\* try: result = await tool(...)
\* except ToolError as e: ToolFailure(error=e.message)
CaptureToolError(outcome) ==
    IF outcome.kind = "raise" /\ outcome.error = "ToolError"
    THEN Returned(ToolFailure(outcome.value))
    ELSE outcome

\* BaseTool.to_param
to_param(t) ==
    [type |-> "function",
     function |-> [name |-> t.name, description |-> t.description,
                   parameters |-> None]]

\* the position of the last tool named name in ts, 0 when there is none
LastIndex(ts, name) ==
    LET at == {i \in 1..Len(ts) : ts[i].name = name}
    IN  IF at = {} THEN 0 ELSE CHOOSE i \in at : \A j \in at : j <= i

\* {tool.name: tool for tool in tools}: a later tool of a name overwrites
NameMap(ts) ==
    [name \in {ts[i].name : i \in 1..Len(ts)} |-> ts[LastIndex(ts, name)]]

\* ToolCollection.add_tool: the tuple grows, the map entry is overwritten
add_tool(ts, tmap, tool) ==
    [tools |-> Append(ts, tool),
     tool_map |-> [name \in DOMAIN tmap \cup {tool.name} |->
                      IF name = tool.name THEN tool ELSE tmap[name]]]

\* ToolCollection.add_tools: add_tool for each tool of the batch, in order
RECURSIVE add_tools(_, _, _)
add_tools(ts, tmap, batch) ==
    IF batch = <<>>
    THEN [tools |-> ts, tool_map |-> tmap]
    ELSE LET one == add_tool(ts, tmap, Head(batch))
         IN  add_tools(one.tools, one.tool_map, Tail(batch))

\* ToolCollection.get_tool: tool_map.get(name)
get_tool(tmap, name) == IF name \in DOMAIN tmap THEN tmap[name] ELSE None

\* a bug: the lookup is tool_map[name], which raises for an unknown name
execute_Subscript(tmap, name, tool_input, behaviour) ==
    IF name \notin DOMAIN tmap
    THEN [outcome |-> RaisedWith("KeyError", name), executed |-> <<>>]
    ELSE IF tool_input = None
    THEN [outcome |-> RaisedWith("TypeError", "**None"), executed |-> <<>>]
    ELSE [outcome |-> CaptureToolError(tool_call_outcome(tmap[name], behaviour)),
          executed |-> <<tmap[name]>>]

\* ToolCollection.execute: its outcome and the tools it executed.  An unknown
\* name gives ToolFailure; tool(**None) raises TypeError before the tool
\* runs; otherwise the tool runs and only ToolError is captured
execute(tmap, name, tool_input, behaviour) ==
    IF name \notin DOMAIN tmap
    THEN [outcome |-> Returned(ToolFailure(InvalidMessage(name))),
          executed |-> <<>>]
    ELSE IF tool_input = None
    THEN [outcome |-> RaisedWith("TypeError", "**None"), executed |-> <<>>]
    ELSE [outcome |-> CaptureToolError(tool_call_outcome(tmap[name], behaviour)),
          executed |-> <<tmap[name]>>]

\* ToolCollection.execute_all: the loop over self.tools runs until the first
\* exception that is not a ToolError, which leaves the loop and the method
execute_all(ts, behaviours) ==
    LET captured == [i \in 1..Len(ts) |->
                        CaptureToolError(tool_call_outcome(ts[i], behaviours[i]))]
        raising == {i \in 1..Len(ts) : captured[i].kind = "raise"}
        first == CHOOSE i \in raising : \A j \in raising : i <= j
    IN  IF raising = {}
        THEN [outcome |-> Returned([i \in 1..Len(ts) |-> captured[i].value]),
              executed |-> ts]
        ELSE [outcome |-> captured[first], executed |-> SubSeq(ts, 1, first)]

\* ToolCollection.to_params
to_params(ts) == [i \in 1..Len(ts) |-> to_param(ts[i])]

\* the tuples of at most MaxTools tools
ToolTuples == UNION {[1..k -> ToolPool] : k \in 0..MaxTools}

\* what the tools of a tuple do on one execute_all() call
BehaviourTuples == UNION {[1..k -> Behaviours] : k \in 0..MaxTools}

\* ToolCollection(*tools)
InitTools ==
    /\ state = "IDLE"
    /\ max_steps = 0
    /\ current_step = 0
    /\ duplicate_threshold = 1
    /\ next_step_prompt = <<None>>
    /\ messages = <<>>
    /\ max_messages = MaxMessages
    /\ pc = "idle"
    /\ previous_state = "IDLE"
    /\ results = <<>>
    /\ step_result = ""
    /\ exc = ""
    /\ ret = NoReturn
    /\ should_act = FALSE
    /\ step_calls = 0
    /\ think_calls = 0
    /\ act_calls = 0
    /\ warnings = 0
    /\ stuck_ret = "none"
    /\ added = <<>>
    /\ mem_call = NoCall
    /\ tools \in ToolTuples
    /\ tool_map = NameMap(tools)
    /\ tool_call = NoCall
    /\ executed = <<>>
    /\ ServicesIdle

\* collection.add_tool(tool)
AddTool(tool) ==
    /\ Len(tools) < MaxTools
    /\ tools' = add_tool(tools, tool_map, tool).tools
    /\ tool_map' = add_tool(tools, tool_map, tool).tool_map
    /\ tool_call' = [op |-> "add_tool", tool |-> tool]
    /\ executed' = <<>>
    /\ UNCHANGED <<agent_fields, run_locals, ret, probes, stuck_ret, memory_probes>>
    /\ UNCHANGED service_vars

\* collection.add_tools(*batch)
AddTools(batch) ==
    /\ Len(tools) + Len(batch) <= MaxTools
    /\ tools' = add_tools(tools, tool_map, batch).tools
    /\ tool_map' = add_tools(tools, tool_map, batch).tool_map
    /\ tool_call' = [op |-> "add_tools", batch |-> batch]
    /\ executed' = <<>>
    /\ UNCHANGED <<agent_fields, run_locals, ret, probes, stuck_ret, memory_probes>>
    /\ UNCHANGED service_vars

\* collection.get_tool(name)
GetTool(name) ==
    /\ tool_call' = [op |-> "get_tool", name |-> name,
                     returned |-> get_tool(tool_map, name)]
    /\ executed' = <<>>
    /\ UNCHANGED <<agent_fields, run_locals, ret, probes, stuck_ret, memory_probes,
                   tools, tool_map>>
    /\ UNCHANGED service_vars

\* collection.to_params()
ToParams ==
    /\ tool_call' = [op |-> "to_params", returned |-> to_params(tools)]
    /\ executed' = <<>>
    /\ UNCHANGED <<agent_fields, run_locals, ret, probes, stuck_ret, memory_probes,
                   tools, tool_map>>
    /\ UNCHANGED service_vars

\* await collection.execute(name=name, tool_input=tool_input), the tool
\* behaving as behaviour if it is reached
Execute(name, tool_input, behaviour) ==
    /\ tool_call' = [op |-> "execute", name |-> name, tool_input |-> tool_input,
                     behaviour |-> behaviour,
                     outcome |-> execute(tool_map, name, tool_input, behaviour).outcome]
    /\ executed' = execute(tool_map, name, tool_input, behaviour).executed
    /\ UNCHANGED <<agent_fields, run_locals, ret, probes, stuck_ret, memory_probes,
                   tools, tool_map>>
    /\ UNCHANGED service_vars

\* await collection.execute_all(), the i-th tool of the tuple behaving as
\* behaviours[i] if it is reached
ExecuteAll(behaviours) ==
    /\ Len(behaviours) = Len(tools)
    /\ tool_call' = [op |-> "execute_all", behaviours |-> behaviours,
                     outcome |-> execute_all(tools, behaviours).outcome]
    /\ executed' = execute_all(tools, behaviours).executed
    /\ UNCHANGED <<agent_fields, run_locals, ret, probes, stuck_ret, memory_probes,
                   tools, tool_map>>
    /\ UNCHANGED service_vars

NextTools ==
    \/ \E tool \in ToolPool : AddTool(tool)
    \/ \E batch \in ToolTuples : AddTools(batch)
    \/ \E name \in ToolNames \cup {UnknownName} : GetTool(name)
    \/ ToParams
    \/ \E name \in ToolNames \cup {UnknownName}, tool_input \in ToolInputs,
          behaviour \in Behaviours : Execute(name, tool_input, behaviour)
    \/ \E behaviours \in BehaviourTuples : ExecuteAll(behaviours)

SpecTools == InitTools /\ [][NextTools]_vars

(***************************************************************************)
(* The agent, its Memory and its ToolCollection at rest, for the           *)
(* specifications of the components that work without them.                *)
(***************************************************************************)
AgentAtRest ==
    /\ state = "IDLE"
    /\ max_steps = 0
    /\ current_step = 0
    /\ duplicate_threshold = 1
    /\ next_step_prompt = <<None>>
    /\ messages = <<>>
    /\ max_messages = MaxMessages
    /\ pc = "idle"
    /\ previous_state = "IDLE"
    /\ results = <<>>
    /\ step_result = ""
    /\ exc = ""
    /\ ret = NoReturn
    /\ should_act = FALSE
    /\ step_calls = 0
    /\ think_calls = 0
    /\ act_calls = 0
    /\ warnings = 0
    /\ stuck_ret = "none"
    /\ LibraryIdle

agent_side ==
    <<agent_fields, run_locals, ret, probes, stuck_ret, memory_probes, registry_vars>>

(***************************************************************************)
(* ToolResult.__add__ on its own: a caller combines two results.  A field  *)
(* holds None, a text (possibly empty) or, for output, which is typed Any, *)
(* a dict.                                                                 *)
(***************************************************************************)
MergeTexts == {"X", "Y"}

\* a non-empty dict held as output
Structured == "{a: 1}"

OutputValues == {None, ""} \cup MergeTexts \cup {Structured}

ErrorValues == {None, "X"}

SystemValues == {None, "X"}

MergeOperands == [output : OutputValues, error : ErrorValues, system : SystemValues]

\* str + str
Concat(a, b) ==
    CASE a = "X" /\ b = "X" -> "XX"
      [] a = "X" /\ b = "Y" -> "XY"
      [] a = "Y" /\ b = "X" -> "YX"
      [] a = "Y" /\ b = "Y" -> "YY"

\* field + other_field of two values that are both truthy: str + str is the
\* concatenation, and dict + dict, dict + str and str + dict raise TypeError
Plus(a, b) ==
    IF a \in MergeTexts /\ b \in MergeTexts
    THEN Returned(Concat(a, b))
    ELSE Raised("TypeError")

\* combine_fields of ToolResult.__add__
combine_fields(field, other_field, concatenate) ==
    IF Truthy(field) /\ Truthy(other_field)
    THEN IF concatenate THEN Plus(field, other_field) ELSE Raised("ValueError")
    ELSE Returned(IF Truthy(field) THEN field ELSE other_field)

\* ToolResult.__add__: the three fields are combined in the order output,
\* error, system, each with concatenate left at its default True
ToolResultAdd(self, other) ==
    LET o == combine_fields(self.output, other.output, TRUE)
        e == combine_fields(self.error, other.error, TRUE)
        y == combine_fields(self.system, other.system, TRUE)
    IN  IF o.kind = "raise" THEN o
        ELSE IF e.kind = "raise" THEN e
        ELSE IF y.kind = "raise" THEN y
        ELSE Returned([output |-> o.value, error |-> e.value, system |-> y.value])

InitMerge ==
    /\ AgentAtRest
    /\ ServicesIdle

\* left + right
Add(left, right) ==
    /\ merge_call' = [op |-> "__add__", left |-> left, right |-> right,
                      outcome |-> ToolResultAdd(left, right)]
    /\ UNCHANGED <<agent_side, ledger_vars, llm_call, singleton_vars>>

NextMerge == \E left \in MergeOperands, right \in MergeOperands : Add(left, right)

SpecMerge == InitMerge /\ [][NextMerge]_vars

(***************************************************************************)
(* PlanningTool on its own: a caller issues create, update, list, get,     *)
(* set_active, mark_step and delete commands through execute().  A plan is *)
(* a dict of plan_id, title, steps, step_statuses and step_notes; every    *)
(* failure is a ToolError, told apart here by what its message says.       *)
(***************************************************************************)
PlanIds == {"p1", "p2"}

\* a list argument left at None
NoList == <<None>>

\* the steps a caller passes: none, an empty list, one step, two steps
StepLists == {NoList, <<>>, <<"b">>, <<"a", "b">>}

\* the plan_id and title a caller passes
PlanIdArgs == PlanIds \cup {None}

TitleArgs == {None, "T"}

\* the plan_id a caller passes to mark_step: none, or the first plan
MarkIdArgs == {None, "p1"}

\* the step_index, step_status and step_notes a caller passes
IndexArgs == {-1, 0, 1}

StatusArgs == {None, "completed"}

\* a step_status outside the enum: execute() does not check the argument
\* against its Literal annotation
UncheckedStatuses == {"done"}

NoteArgs == {None, "n"}

\* a bug: an empty list counts as given
ListGiven_AcceptEmpty(steps) == steps # NoList

\* a list argument that passes "if steps": neither None nor empty
ListGiven(steps) == steps # NoList /\ steps # <<>>

\* [v] * n
Repeat(v, n) == [i \in 1..n |-> v]

\* a command's effect: the ledger after it and what it returned or raised
Effect(ps, cur, outcome) == [plans |-> ps, current |-> cur, outcome |-> outcome]

\* a command that raises ToolError leaves the ledger as it is
Fails(ps, cur, e) == Effect(ps, cur, Raised(e))

\* the dict ps with key k set to v
Put(ps, k, v) == [id \in DOMAIN ps \cup {k} |-> IF id = k THEN v ELSE ps[id]]

\* a bug: every step counts as completed
Progress_CountsAll(plan) ==
    [completed |-> Len(plan.step_statuses), total |-> Len(plan.steps)]

\* the completed count and the total that _format_plan and _list_plans render
Progress(plan) ==
    [completed |-> Cardinality({i \in 1..Len(plan.step_statuses) :
                                   plan.step_statuses[i] = "completed"}),
     total |-> Len(plan.steps)]

\* PlanningTool._format_plan: the parts of the rendered text
format_plan(plan, cur) ==
    [plan_id |-> plan.plan_id,
     title |-> plan.title,
     active |-> plan.plan_id = cur,
     progress |-> Progress(plan),
     lines |-> [i \in 1..Len(plan.steps) |->
                   [step |-> plan.steps[i], status |-> plan.step_statuses[i],
                    notes |-> plan.step_notes[i]]]]

\* a bug: the new plan's steps start out in progress
NewPlan_InProgress(plan_id, title, steps) ==
    [plan_id |-> plan_id, title |-> title, steps |-> steps,
     step_statuses |-> Repeat("in_progress", Len(steps)),
     step_notes |-> Repeat("", Len(steps))]

\* the plan dict _create_plan builds
NewPlan(plan_id, title, steps) ==
    [plan_id |-> plan_id, title |-> title, steps |-> steps,
     step_statuses |-> Repeat("not_started", Len(steps)),
     step_notes |-> Repeat("", Len(steps))]

\* PlanningTool._create_plan
create_plan(ps, cur, plan_id, title, steps) ==
    IF ~Truthy(plan_id) \/ ~Truthy(title) \/ ~ListGiven(steps)
    THEN Fails(ps, cur, "MissingField")
    ELSE IF plan_id \in DOMAIN ps
    THEN Fails(ps, cur, "DuplicateId")
    ELSE Effect(Put(ps, plan_id, NewPlan(plan_id, title, steps)),
                plan_id, Returned("created"))

\* a bug: a shorter steps list leaves the statuses and notes as long as before
Resized_NoTruncate(list, new_len, fill) ==
    IF new_len > Len(list)
    THEN list \o Repeat(fill, new_len - Len(list))
    ELSE list

\* a bug: a new steps list starts every status and note afresh
Resized_Reset(list, new_len, fill) ==
    IF new_len = Len(list) THEN list ELSE Repeat(fill, new_len)

\* the lists of _update_plan that follow a new steps list of length new_len
Resized(list, new_len, fill) ==
    IF new_len > Len(list)
    THEN list \o Repeat(fill, new_len - Len(list))
    ELSE IF new_len < Len(list)
    THEN SubSeq(list, 1, new_len)
    ELSE list

\* PlanningTool._update_plan
update_plan(ps, cur, plan_id, title, steps) ==
    IF ~Truthy(plan_id)
    THEN Fails(ps, cur, "MissingField")
    ELSE IF plan_id \notin DOMAIN ps
    THEN Fails(ps, cur, "NotFound")
    ELSE LET plan == ps[plan_id]
             titled == IF Truthy(title) THEN [plan EXCEPT !.title = title] ELSE plan
             updated ==
                 IF ListGiven(steps)
                 THEN [titled EXCEPT
                          !.steps = steps,
                          !.step_statuses = Resized(@, Len(steps), "not_started"),
                          !.step_notes = Resized(@, Len(steps), "")]
                 ELSE titled
         IN  Effect(Put(ps, plan_id, updated), cur, Returned("updated"))

\* PlanningTool._list_plans
list_plans(ps, cur) ==
    Effect(ps, cur,
           Returned({[plan_id |-> id, active |-> id = cur,
                      progress |-> Progress(ps[id])] : id \in DOMAIN ps}))

\* the plan_id a command without one falls back on; None when no plan is active
Resolved(cur, plan_id) == IF Truthy(plan_id) THEN plan_id ELSE cur

\* PlanningTool._get_plan
get_plan(ps, cur, plan_id) ==
    IF ~Truthy(Resolved(cur, plan_id))
    THEN Fails(ps, cur, "NoActivePlan")
    ELSE IF Resolved(cur, plan_id) \notin DOMAIN ps
    THEN Fails(ps, cur, "NotFound")
    ELSE Effect(ps, cur, Returned(format_plan(ps[Resolved(cur, plan_id)], cur)))

\* PlanningTool._set_active_plan
set_active_plan(ps, cur, plan_id) ==
    IF ~Truthy(plan_id)
    THEN Fails(ps, cur, "MissingField")
    ELSE IF plan_id \notin DOMAIN ps
    THEN Fails(ps, cur, "NotFound")
    ELSE Effect(ps, plan_id, Returned("activated"))

\* a bug: the index one past the last step is let through
IndexInRange_Inclusive(step_index, plan) ==
    ~(step_index < 0 \/ step_index > Len(plan.steps))

\* the range check of _mark_step, on a 0-based step_index
IndexInRange(step_index, plan) == ~(step_index < 0 \/ step_index >= Len(plan.steps))

\* PlanningTool._mark_step, for an integer step_index
mark_step(ps, cur, plan_id, step_index, step_status, step_notes) ==
    IF ~Truthy(Resolved(cur, plan_id))
    THEN Fails(ps, cur, "NoActivePlan")
    ELSE IF Resolved(cur, plan_id) \notin DOMAIN ps
    THEN Fails(ps, cur, "NotFound")
    ELSE LET id == Resolved(cur, plan_id)
             plan == ps[id]
             at == step_index + 1
             statused == IF Truthy(step_status)
                         THEN [plan EXCEPT !.step_statuses[at] = step_status]
                         ELSE plan
             noted == IF Truthy(step_notes)
                      THEN [statused EXCEPT !.step_notes[at] = step_notes]
                      ELSE statused
         IN  IF ~IndexInRange(step_index, plan)
             THEN Fails(ps, cur, "IndexOutOfRange")
             ELSE Effect(Put(ps, id, noted), cur, Returned("marked"))

\* a bug: the active pointer keeps naming the deleted plan
ActiveAfterDelete_Keep(cur, plan_id) == cur

\* _current_plan_id once plan_id is deleted: cleared when it named that plan
ActiveAfterDelete(cur, plan_id) == IF cur = plan_id THEN None ELSE cur

\* PlanningTool._delete_plan
delete_plan(ps, cur, plan_id) ==
    IF ~Truthy(plan_id)
    THEN Fails(ps, cur, "MissingField")
    ELSE IF plan_id \notin DOMAIN ps
    THEN Fails(ps, cur, "NotFound")
    ELSE Effect([id \in DOMAIN ps \ {plan_id} |-> ps[id]],
                ActiveAfterDelete(cur, plan_id),
                Returned("deleted"))

\* a bug: the tool raises its failures as ValueError
AsToolError_ValueError(outcome) ==
    IF outcome.kind = "raise"
    THEN RaisedWith("ValueError", outcome.error)
    ELSE outcome

\* what execute gives its caller, with the exception as it is raised: every
\* failure of the tool is a ToolError, its message standing for its class
AsToolError(outcome) ==
    IF outcome.kind = "raise"
    THEN RaisedWith("ToolError", outcome.error)
    ELSE outcome

\* the record of a command: what execute(command=op, ...) returned or raised,
\* and what ToolCollection.execute gives for the same call of the tool
Commanded(op, outcome) ==
    [op |-> op, outcome |-> outcome,
     registry |-> CaptureToolError(AsToolError(outcome))]

\* PlanningTool()
InitLedger ==
    /\ AgentAtRest
    /\ ServicesIdle

\* execute(command="create", ...): the ledger after it and the caller's result
Create(plan_id, title, steps) ==
    LET effect == create_plan(plans, current_plan_id, plan_id, title, steps)
    IN  /\ plans' = effect.plans
        /\ current_plan_id' = effect.current
        /\ plan_call' = Commanded("create", effect.outcome)
        /\ UNCHANGED <<agent_side, llm_call, merge_call, singleton_vars>>

\* execute(command="update", ...)
Update(plan_id, title, steps) ==
    LET effect == update_plan(plans, current_plan_id, plan_id, title, steps)
    IN  /\ plans' = effect.plans
        /\ current_plan_id' = effect.current
        /\ plan_call' = Commanded("update", effect.outcome)
        /\ UNCHANGED <<agent_side, llm_call, merge_call, singleton_vars>>

\* execute(command="list")
List ==
    LET effect == list_plans(plans, current_plan_id)
    IN  /\ plans' = effect.plans
        /\ current_plan_id' = effect.current
        /\ plan_call' = Commanded("list", effect.outcome)
        /\ UNCHANGED <<agent_side, llm_call, merge_call, singleton_vars>>

\* execute(command="get", ...)
Get(plan_id) ==
    LET effect == get_plan(plans, current_plan_id, plan_id)
    IN  /\ plans' = effect.plans
        /\ current_plan_id' = effect.current
        /\ plan_call' = Commanded("get", effect.outcome)
        /\ UNCHANGED <<agent_side, llm_call, merge_call, singleton_vars>>

\* execute(command="set_active", ...)
SetActive(plan_id) ==
    LET effect == set_active_plan(plans, current_plan_id, plan_id)
    IN  /\ plans' = effect.plans
        /\ current_plan_id' = effect.current
        /\ plan_call' = Commanded("set_active", effect.outcome)
        /\ UNCHANGED <<agent_side, llm_call, merge_call, singleton_vars>>

\* execute(command="mark_step", ...)
MarkStep(plan_id, step_index, step_status, step_notes) ==
    LET effect == mark_step(plans, current_plan_id, plan_id, step_index,
                            step_status, step_notes)
    IN  /\ plans' = effect.plans
        /\ current_plan_id' = effect.current
        /\ plan_call' = Commanded("mark_step", effect.outcome)
        /\ UNCHANGED <<agent_side, llm_call, merge_call, singleton_vars>>

\* execute(command="delete", ...)
Delete(plan_id) ==
    LET effect == delete_plan(plans, current_plan_id, plan_id)
    IN  /\ plans' = effect.plans
        /\ current_plan_id' = effect.current
        /\ plan_call' = Commanded("delete", effect.outcome)
        /\ UNCHANGED <<agent_side, llm_call, merge_call, singleton_vars>>

\* execute(command=...) with a command that is none of the seven
Unrecognized ==
    LET effect == Fails(plans, current_plan_id, "UnknownCommand")
    IN  /\ plans' = effect.plans
        /\ current_plan_id' = effect.current
        /\ plan_call' = Commanded("unknown", effect.outcome)
        /\ UNCHANGED <<agent_side, llm_call, merge_call, singleton_vars>>

NextLedger ==
    \/ Unrecognized
    \/ \E plan_id \in PlanIdArgs, title \in TitleArgs, steps \in StepLists :
          Create(plan_id, title, steps)
    \/ \E plan_id \in PlanIdArgs, title \in TitleArgs, steps \in StepLists :
          Update(plan_id, title, steps)
    \/ List
    \/ \E plan_id \in PlanIdArgs : Get(plan_id)
    \/ \E plan_id \in PlanIdArgs : SetActive(plan_id)
    \/ \E plan_id \in MarkIdArgs, step_index \in IndexArgs,
          step_status \in StatusArgs, step_notes \in NoteArgs :
          MarkStep(plan_id, step_index, step_status, step_notes)
    \/ \E plan_id \in PlanIdArgs : Delete(plan_id)

SpecLedger == InitLedger /\ [][NextLedger]_vars

\* the same tool with callers that also pass a step_status outside the enum
\* of the parameter schema
NextLedgerUnchecked ==
    \/ NextLedger
    \/ \E plan_id \in MarkIdArgs, step_index \in IndexArgs,
          step_status \in UncheckedStatuses, step_notes \in NoteArgs :
          MarkStep(plan_id, step_index, step_status, step_notes)

SpecLedgerUnchecked == InitLedger /\ [][NextLedgerUnchecked]_vars

(***************************************************************************)
(* LLM.ask and LLM.ask_tool on their own: a caller makes one call at a     *)
(* time; the retry decorator runs the body again after every attempt that  *)
(* raised, until an attempt returns or stop_after_attempt says stop.  One   *)
(* step is one attempt together with the decorator's decision about it.    *)
(***************************************************************************)
\* stop_after_attempt(6)
MaxAttempts == 6

\* what client.chat.completions.create raises in the model: rate limiting and
\* a server-side failure pass with time, a rejected key does not
TransientErrors == {"RateLimitError", "APIError"}

PermanentErrors == {"AuthenticationError"}

GatewayErrors == TransientErrors \cup PermanentErrors

\* the text of a completion: some text, or none
Replies == {"text", ""}

\* a call that has neither returned nor raised yet
Pending == [kind |-> "none", value |-> "", error |-> ""]

\* the value a call returned
Answered(reply) == [kind |-> "return", value |-> reply, error |-> ""]

\* tenacity's RetryError, raised to the caller once the decorator stops; it
\* holds the attempt that failed last, here the error that attempt raised
RetryError(last) == [kind |-> "raise", value |-> last, error |-> "RetryError"]

\* a bug: the decorator stops one attempt too late
stop_after_attempt_OneMore(attempt_number) == attempt_number > MaxAttempts

\* stop=stop_after_attempt(6): true once attempt_number attempts were made
stop_after_attempt(attempt_number) == attempt_number >= MaxAttempts

\* a key that a message dict does not have
Absent == "<absent>"

\* Message(role=..., content=..., tool_calls=...): None where not given
MessageItem(role, content, tool_calls) ==
    [form |-> "Message", role |-> role, content |-> content, tool_calls |-> tool_calls]

\* {"role": ..., "content": ..., "tool_calls": ...}: Absent where the key is
\* missing
DictItem(role, content, tool_calls) ==
    [form |-> "dict", role |-> role, content |-> content, tool_calls |-> tool_calls]

\* Message.to_dict: a key for every field that is not None
to_dict(message) ==
    DictItem(message.role,
             IF message.content = None THEN Absent ELSE message.content,
             IF message.tool_calls = None THEN Absent ELSE message.tool_calls)

\* the messages lists a caller passes: two user messages, a user message and
\* an assistant message that only holds tool calls, a list whose second dict
\* has an unknown role, and an assistant message without content or tool calls
MessageLists ==
    {<<MessageItem("user", "X", None), DictItem("user", "Y", Absent)>>,
     <<MessageItem("user", "X", None), MessageItem("assistant", None, "calls")>>,
     <<MessageItem("user", "X", None), DictItem("bogus", "Y", Absent)>>,
     <<MessageItem("assistant", None, None)>>}

\* the system_msgs a caller passes: none, two system messages, and a dict that
\* has a role only
SystemLists ==
    {<<>>,
     <<MessageItem("system", "X", None), MessageItem("system", "Y", None)>>,
     <<DictItem("system", Absent, Absent)>>}

\* the first loop of format_messages: dicts as they are, Messages by to_dict
AsDicts(msgs) ==
    [i \in 1..Len(msgs) |->
        IF msgs[i].form = "dict" THEN msgs[i] ELSE to_dict(msgs[i])]

\* the tests of format_messages on one dict: role present and known, content
\* or tool_calls present
Wellformed(msg) ==
    /\ msg.role # Absent
    /\ msg.role \in {"system", "user", "assistant", "tool"}
    /\ (msg.content # Absent \/ msg.tool_calls # Absent)

\* LLM.format_messages: the dicts, or ValueError
format_messages(msgs) ==
    IF \A i \in 1..Len(msgs) : Wellformed(AsDicts(msgs)[i])
    THEN Returned(AsDicts(msgs))
    ELSE Raised("ValueError")

\* the messages parameter of the request, or what format_messages raised:
\* messages are formatted first, system_msgs when given next and put in front
prepare(msgs, system_msgs) ==
    IF format_messages(msgs).kind = "raise"
    THEN format_messages(msgs)
    ELSE IF system_msgs = <<>>
    THEN format_messages(msgs)
    ELSE IF format_messages(system_msgs).kind = "raise"
    THEN format_messages(system_msgs)
    ELSE Returned(format_messages(system_msgs).value \o format_messages(msgs).value)

\* a call of op as it starts: valid tells whether format_messages accepts the
\* messages, stream is the stream argument of ask, request holds the messages
\* parameter of the request made last
NewCall(op, msgs, system_msgs, stream) ==
    [op |-> op, messages |-> msgs, system_msgs |-> system_msgs,
     valid |-> prepare(msgs, system_msgs).kind = "return",
     stream |-> stream, pc |-> "attempt",
     attempts |-> 0, requests |-> 0, request |-> <<>>,
     errors |-> <<>>, outcome |-> Pending]

\* the messages parameter of the request an attempt makes, when it makes one
Sent(call, sent) ==
    IF sent = 0 THEN call.request ELSE prepare(call.messages, call.system_msgs).value

\* a bug: the attempt that returned is not counted
succeeded_Uncounted(call, sent, reply) ==
    [call EXCEPT !.pc = "done",
                 !.requests = @ + sent,
                 !.request = Sent(call, sent),
                 !.outcome = Answered(reply)]

\* the call after an attempt that issued sent requests and returned reply
succeeded(call, sent, reply) ==
    [call EXCEPT !.pc = "done",
                 !.attempts = @ + 1,
                 !.requests = @ + sent,
                 !.request = Sent(call, sent),
                 !.outcome = Answered(reply)]

\* the call after an attempt that issued sent requests and raised e: the
\* decorator retries on every exception, and when stop_after_attempt says
\* stop it raises RetryError instead
failed(call, sent, e) ==
    IF stop_after_attempt(call.attempts + 1)
    THEN [call EXCEPT !.pc = "done",
                      !.attempts = @ + 1,
                      !.requests = @ + sent,
                      !.request = Sent(call, sent),
                      !.errors = Append(@, e),
                      !.outcome = RetryError(e)]
    ELSE [call EXCEPT !.attempts = @ + 1,
                      !.requests = @ + sent,
                      !.request = Sent(call, sent),
                      !.errors = Append(@, e)]

\* the completion of a non-streaming ask has no content
EmptyResponse(call, reply) == call.op = "ask" /\ ~call.stream /\ reply = ""

\* no call is in progress
GatewayFree == IF llm_call.op = "none" THEN TRUE ELSE llm_call.pc = "done"

\* an attempt of the call in progress is due
AttemptDue == IF llm_call.op = "none" THEN FALSE ELSE llm_call.pc = "attempt"

\* LLM()
InitGateway ==
    /\ AgentAtRest
    /\ ServicesIdle

\* await llm.ask(messages, system_msgs, stream)
Ask(msgs, system_msgs, stream) ==
    /\ GatewayFree
    /\ llm_call' = NewCall("ask", msgs, system_msgs, stream)
    /\ UNCHANGED <<agent_side, ledger_vars, merge_call, singleton_vars>>

\* await llm.ask_tool(messages, system_msgs, ...)
AskTool(msgs, system_msgs) ==
    /\ GatewayFree
    /\ llm_call' = NewCall("ask_tool", msgs, system_msgs, FALSE)
    /\ UNCHANGED <<agent_side, ledger_vars, merge_call, singleton_vars>>

\* an attempt in which format_messages raises ValueError: no request is made
AttemptRejected ==
    /\ AttemptDue
    /\ ~llm_call.valid
    /\ llm_call' = failed(llm_call, 0, "ValueError")
    /\ UNCHANGED <<agent_side, ledger_vars, merge_call, singleton_vars>>

\* an attempt whose request is answered with a completion of text reply
AttemptAnswered(reply) ==
    /\ AttemptDue
    /\ llm_call.valid
    /\ llm_call' = IF EmptyResponse(llm_call, reply)
                   THEN failed(llm_call, 1, "ValueError")
                   ELSE succeeded(llm_call, 1, reply)
    /\ UNCHANGED <<agent_side, ledger_vars, merge_call, singleton_vars>>

\* an attempt whose request raises e
AttemptFailed(e) ==
    /\ AttemptDue
    /\ llm_call.valid
    /\ llm_call' = failed(llm_call, 1, e)
    /\ UNCHANGED <<agent_side, ledger_vars, merge_call, singleton_vars>>

NextGateway ==
    \/ \E msgs \in MessageLists, system_msgs \in SystemLists, stream \in BOOLEAN :
          Ask(msgs, system_msgs, stream)
    \/ \E msgs \in MessageLists, system_msgs \in SystemLists :
          AskTool(msgs, system_msgs)
    \/ AttemptRejected
    \/ \E reply \in Replies : AttemptAnswered(reply)
    \/ \E e \in GatewayErrors : AttemptFailed(e)

SpecGateway == InitGateway /\ [][NextGateway]_vars

(***************************************************************************)
(* LLM(config_name, llm_config): the constructions of gateways.  An        *)
(* instance is written as the record of its attributes, with the order of  *)
(* its creation as its identity.                                           *)
(***************************************************************************)
\* the names of configuration profiles that callers construct gateways for
ConfigNames == {"default", "vision", "other"}

\* LLMSettings: two profiles that differ in every field
SettingsA ==
    [model |-> "gpt-4o", temperature |-> 0, api_key |-> "key-a", base_url |-> "url-a"]

SettingsB ==
    [model |-> "claude", temperature |-> 1, api_key |-> "key-b", base_url |-> "url-b"]

\* the llm_config a caller passes, config.llm when it passes none: a dict of
\* profiles by name, which always has the profile "default"
Configs ==
    {[default |-> SettingsA, vision |-> SettingsB],
     [default |-> SettingsB]}

\* llm_config.get(config_name, llm_config["default"])
Profile(llm_config, config_name) ==
    IF config_name \in DOMAIN llm_config
    THEN llm_config[config_name]
    ELSE llm_config["default"]

\* super().__new__(cls): an object without attributes, the id-th one created
Blank(id) ==
    [id |-> id, client |-> None, model |-> None, temperature |-> -1,
     api_key |-> None, base_url |-> None]

\* a bug: __init__ resolves the profile again on an initialised instance
init_Always(self, config_name, llm_config) ==
    LET settings == Profile(llm_config, config_name)
    IN  [self EXCEPT !.model = settings.model,
                     !.temperature = settings.temperature,
                     !.api_key = settings.api_key,
                     !.base_url = settings.base_url,
                     !.client = settings.base_url]

\* LLM.__init__: nothing on an instance that has a client already
init(self, config_name, llm_config) ==
    IF self.client # None
    THEN self
    ELSE LET settings == Profile(llm_config, config_name)
         IN  [self EXCEPT !.model = settings.model,
                          !.temperature = settings.temperature,
                          !.api_key = settings.api_key,
                          !.base_url = settings.base_url,
                          !.client = settings.base_url]

\* LLM._instances after LLM.__new__(cls, config_name, llm_config)
new(known, config_name, llm_config) ==
    IF config_name \notin DOMAIN known
    THEN Put(known, config_name,
             init(Blank(Cardinality(DOMAIN known) + 1), config_name, llm_config))
    ELSE known

\* LLM._instances after LLM(config_name, llm_config): __new__ returns the
\* instance kept under config_name and Python then calls __init__ on it
construct(known, config_name, llm_config) ==
    [name \in DOMAIN new(known, config_name, llm_config) |->
        IF name = config_name
        THEN init(new(known, config_name, llm_config)[name], config_name, llm_config)
        ELSE new(known, config_name, llm_config)[name]]

InitSingleton ==
    /\ AgentAtRest
    /\ ServicesIdle

\* llm = LLM(config_name, llm_config)
Construct(config_name, llm_config) ==
    /\ instances' = construct(instances, config_name, llm_config)
    /\ llm_new' = [op |-> "LLM", config_name |-> config_name,
                   llm_config |-> llm_config,
                   instance |-> instances'[config_name]]
    /\ UNCHANGED <<agent_side, ledger_vars, llm_call, merge_call>>

NextSingleton ==
    \E config_name \in ConfigNames, llm_config \in Configs :
        Construct(config_name, llm_config)

SpecSingleton == InitSingleton /\ [][NextSingleton]_vars

(***************************************************************************)
(* Properties of the agent state machine.                                  *)
(***************************************************************************)
\* the run() in progress or last exited was started on an IDLE agent and has
\* exited, by returning or by raising what a step raised
RunExited ==
    /\ pc = "idle"
    /\ \/ ret.kind = "return"
       \/ ret.kind = "raise" /\ ret.error \in StepErrors

\* C1: when a run() started on an IDLE agent has exited, by returning (also
\* after a step set FINISHED) or by raising, the state is the one held just
\* before RUNNING was entered, which is IDLE: never FINISHED, ERROR or RUNNING.
C1_StateRevertsToIdle ==
    RunExited => state = previous_state /\ state = "IDLE"

\* a run that ended because a step set FINISHED (budget left) has returned
C1_Witness ==
    /\ pc = "idle"
    /\ ret.kind = "return"
    /\ step_calls >= 1
    /\ current_step < max_steps
    /\ state = "IDLE"

\* C2: a run() call on an agent whose state is not IDLE fails with the
\* invalid-state error (RuntimeError) and leaves Memory, current_step and
\* state as they were, whatever request is passed.
C2_RunRejectedOutsideIdle ==
    [][\A request \in Requests :
           (run(request) /\ state # "IDLE") =>
               /\ ret' = Raised("RuntimeError")
               /\ UNCHANGED <<messages, current_step, state>>]_vars

\* a second run() was turned away while the first is suspended in think()
\* with a stored request
C2_Witness ==
    /\ ret = Raised("RuntimeError")
    /\ state = "RUNNING"
    /\ pc = "think"
    /\ messages # <<>>

\* C3: step() is entered only from a state with current_step < max_steps and
\* state not FINISHED; current_step changes only by the +1 that precedes
\* each step(); the loop is left as soon as current_step = max_steps or a
\* step set FINISHED; current_step never passes max_steps from at or below.
C3_StepLoopBounded ==
    /\ [][(pc # "think" /\ pc' = "think") =>
              /\ current_step < max_steps
              /\ state # "FINISHED"
              /\ current_step' = current_step + 1]_vars
    /\ [][current_step' # current_step =>
              /\ current_step' = current_step + 1
              /\ pc' = "think"]_vars
    /\ [][(pc = "loop" /\ (current_step = max_steps \/ state = "FINISHED")) =>
              pc' = "exit"]_vars
    /\ [][current_step <= max_steps => current_step' <= max_steps']_vars

\* the loop was left because the last permitted step had run
C3_Witness ==
    /\ pc = "exit"
    /\ step_calls = MaxSteps
    /\ current_step = max_steps
    /\ state = "RUNNING"

\* C4: an exception raised by a step sets the state to ERROR, reaches the
\* caller of run() unchanged, and the state is then reverted to the pre-run
\* state; that run gives no transcript.
C4_StepErrorPolicy ==
    /\ [](pc = "finally" => state = "ERROR")
    /\ [][(pc \in {"think", "act"} /\ exc' # exc) =>
              /\ exc' \in StepErrors
              /\ pc' = "except"]_vars
    /\ [][pc = "except" => (pc' = "finally" /\ exc' = exc)]_vars
    /\ [][pc = "finally" =>
              /\ ret' = Raised(exc)
              /\ ret'.value = <<>>
              /\ state' = previous_state
              /\ pc' = "idle"]_vars

\* act() raised on the second step of a run, and run() has raised it
C4_Witness ==
    /\ pc = "idle"
    /\ ret = Raised("ValueError")
    /\ step_calls = 2
    /\ state = "IDLE"

\* the last line of a transcript
LastLine(lines) == lines[Len(lines)]

\* C5: a run() whose loop ends with current_step at max_steps returns (it
\* does not raise) and the last line of its transcript is the max-steps
\* notice naming max_steps.
C5_BudgetExhaustedReturnsNotice ==
    /\ []((pc = "exit" /\ current_step >= max_steps) =>
              (results # <<>> /\ LastLine(results) = MaxStepsNotice(max_steps)))
    /\ [][(pc = "exit" /\ current_step >= max_steps) =>
              /\ ret'.kind = "return"
              /\ LastLine(ret'.value) = MaxStepsNotice(max_steps)]_vars

\* a run that used its whole budget of MaxSteps steps has returned
C5_Witness ==
    /\ pc = "idle"
    /\ ret.kind = "return"
    /\ step_calls = MaxSteps
    /\ current_step = max_steps
    /\ LastLine(ret.value) = MaxStepsNotice(max_steps)

\* a run() started on an IDLE agent has returned its transcript
RunReturned == pc = "idle" /\ ret.kind = "return"

\* the per-step records among the lines of a transcript
StepLines(lines) == SelectSeq(lines, LAMBDA r : r.kind = "step")

\* lines are count step records numbered first, first + 1, ... in order
InStepOrder(lines, first, count) ==
    /\ Len(lines) = count
    /\ \A i \in 1..Len(lines) :
           /\ lines[i].kind = "step"
           /\ lines[i].n = first + i - 1
           /\ lines[i].text \in ActTexts \cup {NoAction}

\* C6 as stated: run() returns the per-step records in step order, one per
\* executed step, and the literal no-steps text whenever the loop body never
\* ran in that run.
C6_Original ==
    RunReturned =>
        /\ InStepOrder(StepLines(ret.value), current_step - step_calls + 1, step_calls)
        /\ step_calls = 0 => ret.value = <<NoStepsExecuted>>

\* C6, amended: run() returns the per-step records in step order, one per
\* executed step, each carrying its step's number and text, followed by the
\* max-steps notice when current_step >= max_steps at loop exit; a run whose
\* loop body never ran returns the max-steps notice alone, and no run started
\* on an IDLE agent returns the literal no-steps text.
C6_TranscriptWithNotice ==
    /\ (pc = "loop" /\ step_calls > 0) =>
           (results # <<>> /\ LastLine(results) = StepRecord(current_step, step_result))
    /\ RunReturned =>
           /\ InStepOrder(StepLines(ret.value), current_step - step_calls + 1,
                          step_calls)
           /\ ret.value = StepLines(ret.value)
                          \o (IF current_step >= max_steps
                              THEN <<MaxStepsNotice(max_steps)>> ELSE <<>>)
           /\ step_calls = 0 => ret.value = <<MaxStepsNotice(max_steps)>>
           /\ ret.value # <<NoStepsExecuted>>

\* a run entered with current_step already at a positive max_steps returned
\* the notice alone
C6_Witness ==
    /\ RunReturned
    /\ step_calls = 0
    /\ max_steps >= 1
    /\ current_step = max_steps
    /\ ret.value = <<MaxStepsNotice(max_steps)>>

Copies(k) == [i \in 1..k |-> stuck_prompt]

EarlierAssistant(msgs, upto, content) ==
    Cardinality({i \in 1..(upto - 1) :
                     msgs[i].role = "assistant" /\ msgs[i].content = content})

\* C8: with duplicate_threshold T >= 1 and a latest message of non-empty
\* content X, is_stuck() is true when at least T earlier assistant messages
\* have content X and false when at most T - 1 have; is_stuck() does not
\* change Memory.
C8_StuckAtThreshold ==
    /\ []((/\ stuck_ret # "none"
           /\ duplicate_threshold >= 1
           /\ messages # <<>>
           /\ Truthy(LastLine(messages).content)) =>
              LET n == EarlierAssistant(messages, Len(messages),
                                        LastLine(messages).content)
              IN  /\ n >= duplicate_threshold => stuck_ret = "true"
                  /\ n <= duplicate_threshold - 1 => stuck_ret = "false")
    /\ [][(stuck_ret' # stuck_ret /\ stuck_ret' # "none") =>
              messages' = messages]_vars

\* is_stuck() answered true with exactly MaxThreshold earlier repeats
C8_Witness ==
    /\ stuck_ret = "true"
    /\ duplicate_threshold = MaxThreshold
    /\ LastLine(messages).role = "assistant"
    /\ EarlierAssistant(messages, Len(messages), LastLine(messages).content)
           = duplicate_threshold

\* the position of the most recent assistant message, 0 when there is none
LastAssistant(msgs) ==
    LET at == {i \in 1..Len(msgs) : msgs[i].role = "assistant"}
    IN  IF at = {} THEN 0 ELSE CHOOSE i \in at : \A j \in at : j <= i

\* C9: the detector judges a Memory by its most recent assistant message,
\* counting only the assistant messages before that one, also when the last
\* message of Memory is a tool, user or system message.
C9_ReferenceIsLastAssistant ==
    (/\ stuck_ret # "none"
     /\ duplicate_threshold >= 1
     /\ LastAssistant(messages) > 0) =>
        LET j == LastAssistant(messages)
            reference == messages[j].content
        IN  stuck_ret = Bool(/\ Truthy(reference)
                             /\ EarlierAssistant(messages, j, reference)
                                    >= duplicate_threshold)

\* C11: while a run() is suspended inside a step (in think() or act()) the
\* agent is not IDLE, so a later run() on the same instance fails with the
\* invalid-state error (RuntimeError) without entering step(), incrementing
\* current_step or touching Memory, and the suspended run is left where it
\* was.
C11_NoConcurrentSteps ==
    /\ [](pc \in {"think", "act"} => ~RunGuard(state))
    /\ [][\A request \in Requests :
             (run(request) /\ pc \in {"think", "act"}) =>
                 /\ ret' = Raised("RuntimeError")
                 /\ UNCHANGED <<messages, current_step, state, pc, results,
                                step_calls, think_calls, act_calls>>]_vars

\* a second run() was turned away while the first is suspended in act() of
\* its second step
C11_Witness ==
    /\ ret = Raised("RuntimeError")
    /\ state = "RUNNING"
    /\ pc = "act"
    /\ step_calls = 2

LastAppendBy == IF added = <<>> THEN "none" ELSE added[Len(added)].by

OnlyAddMessage == \A i \in 1..Len(added) : added[i].by = "add_message"

\* the last n of s as the specification means it: none of them when n = 0
LastN(s, n) == IF n >= Len(s) THEN s ELSE SubSeq(s, Len(s) - n + 1, Len(s))

\* the messages handed to add_message and add_messages, in order
AddedMessages == [i \in 1..Len(added) |-> added[i].message]

\* C13: after max_messages + 1 messages were appended one at a time with
\* add_message to an empty Memory, the Memory holds exactly the max_messages
\* most recently added ones, in the order they were added, for every
\* capacity including 0 and 1.
C13_AppendsKeepMostRecent ==
    (OnlyAddMessage /\ Len(added) = max_messages + 1) =>
        messages = LastN(AddedMessages, max_messages)

\* what does hold: C13 for every capacity of at least 1
C13_FromCapacityOne ==
    (max_messages >= 1) => C13_AppendsKeepMostRecent

\* C14: add_messages appends the whole batch in order and evicts nothing,
\* and the add_message that follows it leaves exactly the max_messages most
\* recent messages, the added one last.
C14_BatchThenAddRestoresBound ==
    /\ [][\A batch \in Batches :
             AddMessages(batch) => messages' = messages \o batch]_vars
    /\ [][\A m \in MemoryPool :
             (AddMessage(m) /\ mem_call.op = "add_messages") =>
                 messages' = LastN(Append(messages, m), max_messages)]_vars

\* what does hold: C14 for every capacity of at least 1
C14_FromCapacityOne ==
    /\ [][\A batch \in Batches :
             AddMessages(batch) => messages' = messages \o batch]_vars
    /\ [][\A m \in MemoryPool :
             (AddMessage(m) /\ mem_call.op = "add_messages"
                            /\ max_messages >= 1) =>
                 messages' = LastN(Append(messages, m), max_messages)]_vars

\* C15: get_recent_messages(n) returns exactly the last n stored messages in
\* order, all of them when n exceeds the stored count and none when n = 0,
\* and leaves the Memory unchanged.
C15_RecentReturnsLastN ==
    [][\A n \in 0..MaxRecent :
           GetRecentMessages(n) =>
               /\ mem_call'.returned = LastN(messages, n)
               /\ UNCHANGED <<messages, max_messages>>]_vars

\* what does hold: C15 for every n of at least 1
C15_FromOne ==
    [][\A n \in 1..MaxRecent :
           GetRecentMessages(n) =>
               /\ mem_call'.returned = LastN(messages, n)
               /\ UNCHANGED <<messages, max_messages>>]_vars

\* the message has content or tool calls
CarriesPayload(m) == m.content # None \/ ToolCallsOf(m) # None

\* C16: every message held in Memory carries content or tool_calls; no
\* sequence of add operations over the message constructors' results stores
\* a message with neither.
C16_StoredMessagesCarryPayload ==
    \A i \in 1..Len(messages) : CarriesPayload(messages[i])

(***************************************************************************)
(* Properties of ToolCollection.                                           *)
(***************************************************************************)
\* C17: execute with a name that is not in the collection does not raise and
\* executes no tool: it returns a ToolResult with error set and output
\* unset, whether tool_input is a dict or left at None.
C17_UnknownNameGivesFailure ==
    (tool_call.op = "execute" /\ tool_call.name \notin DOMAIN tool_map) =>
        /\ tool_call.outcome.kind = "return"
        /\ tool_call.outcome.value.error # None
        /\ tool_call.outcome.value.output = None
        /\ executed = <<>>

\* execute was called without tool_input for a name that one tool of the
\* collection does not carry, and came back with the failure result
C17_Witness ==
    /\ tool_call.op = "execute"
    /\ tool_call.name = "b"
    /\ tool_call.tool_input = None
    /\ DOMAIN tool_map = {"a"}
    /\ tool_call.outcome = Returned(ToolFailure("Tool b is invalid"))

\* C18: execute on a tool of the collection, with arguments, runs that tool
\* once; it returns the tool's own result when the tool returns; when the
\* tool raises ToolError it does not raise and returns a ToolResult whose
\* error is the ToolError's message and whose output is unset; any other
\* exception of the tool leaves execute as it was raised.
C18_ExecuteOutcome ==
    (/\ tool_call.op = "execute"
     /\ tool_call.name \in DOMAIN tool_map
     /\ tool_call.tool_input # None) =>
        LET t == tool_map[tool_call.name]
            outcome == tool_call.outcome
        IN  /\ executed = <<t>>
            /\ tool_call.behaviour = "result" =>
                   /\ outcome.kind = "return"
                   /\ outcome.value = ToolResult(OutputOf(t), None)
            /\ tool_call.behaviour = "ToolError" =>
                   /\ outcome.kind = "return"
                   /\ outcome.value.error = ErrorMessage(t)
                   /\ outcome.value.output = None
            /\ tool_call.behaviour = "ValueError" =>
                   /\ outcome.kind = "raise"
                   /\ outcome.error = "ValueError"
                   /\ outcome.value = ErrorMessage(t)

\* a ValueError of the second tool named a has left execute
C18_Witness ==
    /\ tool_call.op = "execute"
    /\ tool_call.name = "a"
    /\ Len(tools) = 2
    /\ tools[1].name = "a"
    /\ tools[2] = Tool("a", "second")
    /\ tool_call.outcome = RaisedWith("ValueError", "second")
    /\ executed = <<tools[2]>>

\* a ToolError of a tool has come back from execute as a failure result
C18_WitnessCaptured ==
    /\ tool_call.op = "execute"
    /\ tool_call.behaviour = "ToolError"
    /\ executed # <<>>
    /\ tool_call.outcome = Returned(ToolFailure(ErrorMessage(executed[1])))

\* the tool registered last under name, None when no tool carries the name
LastRegistered(name) ==
    IF LastIndex(tools, name) = 0 THEN None ELSE tools[LastIndex(tools, name)]

\* the names under which a tool was registered
RegisteredNames == {tools[i].name : i \in 1..Len(tools)}

\* C19: of two tools registered under one name the later replaces the
\* earlier: get_tool and execute dispatch to the later one, to_params has
\* one descriptor per registered name, that of the later tool, and
\* execute_all executes no replaced tool and no name twice.
C19_LaterReplacesEarlier ==
    /\ tool_call.op = "get_tool" =>
           tool_call.returned = LastRegistered(tool_call.name)
    /\ (tool_call.op = "execute" /\ executed # <<>>) =>
           executed = <<LastRegistered(tool_call.name)>>
    /\ tool_call.op = "to_params" =>
           /\ Len(tool_call.returned) = Cardinality(RegisteredNames)
           /\ \A name \in RegisteredNames :
                  \E i \in 1..Len(tool_call.returned) :
                      tool_call.returned[i] = to_param(LastRegistered(name))
    /\ tool_call.op = "execute_all" =>
           /\ \A i \in 1..Len(executed) :
                  executed[i] = LastRegistered(executed[i].name)
           /\ \A i, j \in 1..Len(executed) :
                  executed[i].name = executed[j].name => i = j

\* what does hold: the lookups of C19, by get_tool and by execute
C19_LookupsDispatchToLater ==
    /\ tool_call.op = "get_tool" =>
           tool_call.returned = LastRegistered(tool_call.name)
    /\ (tool_call.op = "execute" /\ executed # <<>>) =>
           executed = <<LastRegistered(tool_call.name)>>

\* no name was registered twice
NamesDistinct ==
    \A i, j \in 1..Len(tools) : tools[i].name = tools[j].name => i = j

\* C20: execute_all executes every tool of the collection once, in
\* registration order, and returns one result per tool in that order; a
\* tool that fails is represented by its own error result and the tools
\* after it are still executed.  Stated for collections without a name
\* registered twice.
C20_ExecuteAllCoversEveryTool ==
    (tool_call.op = "execute_all" /\ NamesDistinct) =>
        /\ executed = tools
        /\ tool_call.outcome.kind = "return"
        /\ Len(tool_call.outcome.value) = Len(tools)
        /\ \A i \in 1..Len(tools) :
               IF tool_call.behaviours[i] = "result"
               THEN tool_call.outcome.value[i] = ToolResult(OutputOf(tools[i]), None)
               ELSE /\ tool_call.outcome.value[i].error = ErrorMessage(tools[i])
                    /\ tool_call.outcome.value[i].output = None

\* what does hold: C20 when no tool raises anything but ToolError
C20_WhenOnlyToolErrors ==
    (/\ tool_call.op = "execute_all"
     /\ NamesDistinct
     /\ \A i \in 1..Len(tools) : tool_call.behaviours[i] # "ValueError") =>
        C20_ExecuteAllCoversEveryTool

(***************************************************************************)
(* Properties of ToolResult.                                               *)
(***************************************************************************)
\* the field holds something: a non-empty text or a dict
Populated(v) == Truthy(v)

\* what C21 asks of one field of left + right
MergedField(l, r, outcome, got) ==
    /\ (Populated(l) /\ Populated(r) /\ l \in MergeTexts /\ r \in MergeTexts) =>
           (outcome.kind = "return" => got = Concat(l, r))
    /\ (Populated(l) /\ ~Populated(r)) =>
           (outcome.kind = "return" => got = l)
    /\ (~Populated(l) /\ Populated(r)) =>
           (outcome.kind = "return" => got = r)
    /\ (Populated(l) /\ Populated(r) /\ ~(l \in MergeTexts /\ r \in MergeTexts)) =>
           (outcome.kind = "raise" /\ outcome.error = "ValueError")

\* both operands hold nothing but texts and None
Textual(left, right) ==
    \A v \in {left.output, right.output} : v # Structured

\* C21: left + right has in each of output, error and system the
\* concatenation left then right when both sides hold a text there and the
\* populated side when one does; two texts always combine; and the
\* combination fails with the unmergeable error (ValueError) when both
\* sides populate a field with values that cannot be concatenated.
C21_CombineFieldByField ==
    merge_call.op = "__add__" =>
        LET l == merge_call.left
            r == merge_call.right
            outcome == merge_call.outcome
            got == IF outcome.kind = "return"
                   THEN outcome.value
                   ELSE [output |-> None, error |-> None, system |-> None]
        IN  /\ Textual(l, r) => outcome.kind = "return"
            /\ MergedField(l.output, r.output, outcome, got.output)
            /\ MergedField(l.error, r.error, outcome, got.error)
            /\ MergedField(l.system, r.system, outcome, got.system)

\* what does hold: C21 for operands whose fields are texts or None
C21_TextualMerge ==
    (merge_call.op = "__add__" /\ Textual(merge_call.left, merge_call.right)) =>
        C21_CombineFieldByField

(***************************************************************************)
(* Properties of PlanningTool.                                             *)
(***************************************************************************)
\* the last command returned a result, it did not raise
Succeeded(op) == plan_call.op = op /\ plan_call.outcome.kind = "return"

\* the last command raised ToolError with a message of class e
Failed(op, e) ==
    plan_call.op = op /\ plan_call.outcome.kind = "raise" /\ plan_call.outcome.error = e

\* C22: every plan of the ledger has as many step_statuses and step_notes as
\* steps, after any sequence of commands, successful or failing.
C22_ParallelListsSameLength ==
    \A id \in DOMAIN plans :
        /\ Len(plans[id].step_statuses) = Len(plans[id].steps)
        /\ Len(plans[id].step_notes) = Len(plans[id].steps)

\* an update has left a one-step plan whose step is completed and annotated
\* next to a two-step plan
C22_Witness ==
    /\ Succeeded("update")
    /\ DOMAIN plans = PlanIds
    /\ plans["p1"].steps = <<"b">>
    /\ plans["p1"].step_statuses = <<"completed">>
    /\ plans["p1"].step_notes = <<"n">>
    /\ Len(plans["p2"].steps) = 2

\* the statuses the parameter schema allows
StepStatuses == {"not_started", "in_progress", "completed", "blocked"}

\* C23: every entry of every plan's step_statuses is one of not_started,
\* in_progress, completed and blocked, whatever step_status the mark_step
\* commands were given.
C23_StatusesWithinEnum ==
    \A id \in DOMAIN plans :
        \A i \in 1..Len(plans[id].step_statuses) :
            plans[id].step_statuses[i] \in StepStatuses

\* the plans other than id are the same before and after the step
OthersUnchanged(id) ==
    /\ DOMAIN plans' \ {id} = DOMAIN plans \ {id}
    /\ \A other \in DOMAIN plans \ {id} : plans'[other] = plans[other]

\* C24: a create that succeeds stores under plan_id a plan with the given
\* title and exactly the given steps, every status not_started and every
\* note empty, makes it the active plan whatever was active before, and
\* leaves the other plans alone.  (Every step that ends a returning create
\* either is as required or is no create with these arguments.)
C24_CreateStoresFreshPlan ==
    [][(plan_call'.op = "create" /\ plan_call'.outcome.kind = "return") =>
       \A plan_id \in PlanIds, title \in TitleArgs, steps \in StepLists :
           LET required ==
                   /\ plan_id \in DOMAIN plans'
                   /\ plans'[plan_id].plan_id = plan_id
                   /\ plans'[plan_id].title = title
                   /\ plans'[plan_id].steps = steps
                   /\ plans'[plan_id].step_statuses =
                          [i \in 1..Len(steps) |-> "not_started"]
                   /\ plans'[plan_id].step_notes = [i \in 1..Len(steps) |-> ""]
                   /\ current_plan_id' = plan_id
                   /\ OthersUnchanged(plan_id)
           IN  required \/ ~Create(plan_id, title, steps)]_vars

\* a second plan was created while another one was active and took over
C24_Witness ==
    /\ Succeeded("create")
    /\ DOMAIN plans = PlanIds
    /\ current_plan_id = "p2"
    /\ plans["p2"].steps = <<"a", "b">>
    /\ plans["p2"].step_statuses = <<"not_started", "not_started">>
    /\ plans["p1"].step_statuses = <<"completed">>

\* the ledger is the same before and after the step
LedgerUnchanged == UNCHANGED <<plans, current_plan_id>>

\* the command of the step raised ToolError with a message of class e
Raises(e) == plan_call'.outcome.kind = "raise" /\ plan_call'.outcome.error = e

\* the statement of C25 as the specification words it: absent is an argument
\* that was not passed (None)
C25_Original ==
    [][plan_call'.op = "create" =>
       \A plan_id \in PlanIdArgs, title \in TitleArgs, steps \in StepLists :
           LET absent == plan_id = None \/ title = None \/ steps = NoList
               required ==
                   /\ absent => Raises("MissingField")
                   /\ (~absent /\ plan_id \in DOMAIN plans) => Raises("DuplicateId")
                   /\ (~absent /\ plan_id \notin DOMAIN plans) =>
                          plan_call'.outcome.kind = "return"
                   /\ \A id \in DOMAIN plans :
                          id \in DOMAIN plans' /\ plans'[id] = plans[id]
           IN  required \/ ~Create(plan_id, title, steps)]_vars

\* the argument was not passed or is empty
Empty(x) == x = None \/ x = ""

\* C25: create fails with MissingField whenever plan_id, title or steps is
\* absent or empty (an empty string, an empty list), also when plan_id names
\* an existing plan; it fails with DuplicateId when all three are given and
\* plan_id is in the ledger; it succeeds in exactly the remaining cases; a
\* failing create changes nothing and no create overwrites an existing plan.
\* (Every step that ends a create either is as required or is no create
\* with these arguments.)
C25_CreateFailures ==
    [][plan_call'.op = "create" =>
       \A plan_id \in PlanIdArgs, title \in TitleArgs, steps \in StepLists :
           LET missing == Empty(plan_id) \/ Empty(title)
                              \/ steps = NoList \/ steps = <<>>
               required ==
                   /\ missing => (Raises("MissingField") /\ LedgerUnchanged)
                   /\ (~missing /\ plan_id \in DOMAIN plans) =>
                          (Raises("DuplicateId") /\ LedgerUnchanged)
                   /\ (~missing /\ plan_id \notin DOMAIN plans) =>
                          plan_call'.outcome.kind = "return"
                   /\ \A id \in DOMAIN plans :
                          id \in DOMAIN plans' /\ plans'[id] = plans[id]
           IN  required \/ ~Create(plan_id, title, steps)]_vars

\* a create under the id of a plan that had progressed was turned away and
\* the plan is as it was
C25_Witness ==
    /\ Failed("create", "DuplicateId")
    /\ DOMAIN plans = {"p1"}
    /\ plans["p1"].step_statuses = <<"completed", "not_started">>
    /\ plans["p1"].step_notes = <<"n", "">>

\* list cut or padded with fill to length n, the kept entries unchanged
Fitted(list, n, fill) ==
    [i \in 1..n |-> IF i <= Len(list) THEN list[i] ELSE fill]

\* what C26 asks of a step that ends update(plan_id, title, steps), steps
\* being a list
UpdateAsClaimed(plan_id, steps) ==
    /\ plan_id \in DOMAIN plans =>
           /\ plan_call'.outcome.kind = "return"
           /\ plan_id \in DOMAIN plans'
           /\ plans'[plan_id].steps = steps
           /\ plans'[plan_id].step_statuses =
                  Fitted(plans[plan_id].step_statuses, Len(steps), "not_started")
           /\ plans'[plan_id].step_notes =
                  Fitted(plans[plan_id].step_notes, Len(steps), "")
    /\ plan_id \notin DOMAIN plans => (Raises("NotFound") /\ LedgerUnchanged)

\* C26: update(plan_id, steps) on an existing plan replaces steps by the given
\* list; a longer list pads step_statuses and step_notes with not_started and
\* empty, every shorter list down to the empty list cuts the trailing entries
\* off, so that nothing of them is left in the ledger; update on a plan_id
\* that is not in the ledger fails with NotFound.
C26_UpdateReplacesSteps ==
    [][plan_call'.op = "update" =>
       \A plan_id \in PlanIds, title \in TitleArgs, steps \in StepLists \ {NoList} :
           UpdateAsClaimed(plan_id, steps) \/ ~Update(plan_id, title, steps)]_vars

\* what does hold: C26 for every list of at least one step
C26_NonEmptyLists ==
    [][plan_call'.op = "update" =>
       \A plan_id \in PlanIds, title \in TitleArgs,
          steps \in StepLists \ {NoList, <<>>} :
           UpdateAsClaimed(plan_id, steps) \/ ~Update(plan_id, title, steps)]_vars

\* what C27 asks of a step that ends mark_step(plan_id, step_index,
\* step_status, step_notes) when the plan it resolves to is id
MarkAsClaimed(id, step_index, step_status, step_notes) ==
    IF step_index \notin 0..(Len(plans[id].steps) - 1)
    THEN Raises("IndexOutOfRange") /\ LedgerUnchanged
    ELSE /\ plan_call'.outcome.kind = "return"
         /\ current_plan_id' = current_plan_id
         /\ OthersUnchanged(id)
         /\ id \in DOMAIN plans'
         /\ plans'[id].plan_id = plans[id].plan_id
         /\ plans'[id].title = plans[id].title
         /\ plans'[id].steps = plans[id].steps
         /\ plans'[id].step_statuses =
                [plans[id].step_statuses EXCEPT
                    ![step_index + 1] = IF step_status = None THEN @ ELSE step_status]
         /\ plans'[id].step_notes =
                [plans[id].step_notes EXCEPT
                    ![step_index + 1] = IF step_notes = None THEN @ ELSE step_notes]

\* C27: mark_step without plan_id acts on the active plan and fails with
\* NoActivePlan when no plan is active; on the plan it resolves to it fails
\* with IndexOutOfRange exactly when step_index is outside
\* 0..len(steps)-1, and otherwise changes nothing but the status and the
\* note of the step at step_index.  (Every step that ends a mark_step either
\* is as required or is no mark_step with these arguments.)
C27_MarkStepResolution ==
    [][plan_call'.op = "mark_step" =>
       \A plan_id \in MarkIdArgs, step_index \in IndexArgs,
          step_status \in StatusArgs, step_notes \in NoteArgs :
           LET id == IF plan_id = None THEN current_plan_id ELSE plan_id
               required ==
                   /\ id = None => (Raises("NoActivePlan") /\ LedgerUnchanged)
                   /\ id \in DOMAIN plans =>
                          MarkAsClaimed(id, step_index, step_status, step_notes)
           IN  required \/ ~MarkStep(plan_id, step_index, step_status, step_notes)]_vars

\* mark_step found no active plan in a ledger that holds a plan
C27_Witness ==
    /\ Failed("mark_step", "NoActivePlan")
    /\ DOMAIN plans = {"p1"}
    /\ current_plan_id = None

\* mark_step has completed and annotated the second step of the active plan
C27_WitnessMarked ==
    /\ Succeeded("mark_step")
    /\ current_plan_id = "p2"
    /\ DOMAIN plans = PlanIds
    /\ plans["p2"].step_statuses = <<"not_started", "completed">>
    /\ plans["p2"].step_notes = <<"", "n">>

\* a create of plan_id with a title and one step, made in ledger ps, succeeds
CreateSucceeds(ps, cur, plan_id) ==
    create_plan(ps, cur, plan_id, "T", <<"a">>).outcome = Returned("created")

\* what C28 asks of a step that ends delete(plan_id)
DeleteAsClaimed(plan_id) ==
    IF plan_id \notin DOMAIN plans
    THEN Raises("NotFound") /\ LedgerUnchanged
    ELSE /\ plan_call'.outcome.kind = "return"
         /\ DOMAIN plans' = DOMAIN plans \ {plan_id}
         /\ \A other \in DOMAIN plans' : plans'[other] = plans[other]
         /\ current_plan_id' = IF current_plan_id = plan_id THEN None
                                ELSE current_plan_id
         /\ CreateSucceeds(plans', current_plan_id', plan_id)

\* C28: set_active and delete fail with NotFound, changing nothing, for a
\* plan_id that is not in the ledger; a delete that succeeds removes exactly
\* that plan, clears the active pointer when it named the deleted plan and
\* leaves it as it was otherwise; a create with the deleted id succeeds right
\* after the delete and in every later state in which the id is still free.
C28_SetActiveAndDelete ==
    /\ [][plan_call'.op = "set_active" =>
           \A plan_id \in PlanIds :
               \/ plan_id \notin DOMAIN plans => (Raises("NotFound") /\ LedgerUnchanged)
               \/ ~SetActive(plan_id)]_vars
    /\ [][plan_call'.op = "delete" =>
           \A plan_id \in PlanIds :
               DeleteAsClaimed(plan_id) \/ ~Delete(plan_id)]_vars
    /\ [](\A plan_id \in PlanIds \ DOMAIN plans :
              CreateSucceeds(plans, current_plan_id, plan_id))

\* the active plan of two was deleted: the other one is left, none is active
C28_Witness ==
    /\ Succeeded("delete")
    /\ DOMAIN plans = {"p1"}
    /\ current_plan_id = None
    /\ plans["p1"].step_statuses = <<"completed">>

\* a plan that was not the active one was deleted and the pointer stayed
C28_WitnessOther ==
    /\ Succeeded("delete")
    /\ DOMAIN plans = {"p2"}
    /\ current_plan_id = "p2"

\* the completed count over the total that C29 expects for a plan
ClaimedProgress(plan) ==
    [completed |-> Cardinality({i \in 1..Len(plan.steps) :
                                   plan.step_statuses[i] = "completed"}),
     total |-> Len(plan.steps)]

\* C29: a get that finds its plan (the one named, or the active one when no
\* plan_id is given) reports that plan with a completed count equal to the
\* number of its steps whose status is completed and a total equal to
\* len(steps); list reports every plan of the ledger once, with the same two
\* numbers; get and list change neither the plans nor the active pointer.
C29_ProgressReport ==
    /\ [][plan_call'.op = "get" =>
           /\ LedgerUnchanged
           /\ \A plan_id \in PlanIdArgs :
                  LET id == IF plan_id = None THEN current_plan_id ELSE plan_id
                      required ==
                          id \in DOMAIN plans =>
                              /\ plan_call'.outcome.kind = "return"
                              /\ plan_call'.outcome.value.plan_id = id
                              /\ plan_call'.outcome.value.progress =
                                     ClaimedProgress(plans[id])
                  IN  required \/ ~Get(plan_id)]_vars
    /\ [][plan_call'.op = "list" =>
           /\ LedgerUnchanged
           /\ plan_call'.outcome.kind = "return"
           /\ {entry.plan_id : entry \in plan_call'.outcome.value} = DOMAIN plans
           /\ Cardinality(plan_call'.outcome.value) = Cardinality(DOMAIN plans)
           /\ \A entry \in plan_call'.outcome.value :
                  entry.progress = ClaimedProgress(plans[entry.plan_id])]_vars

\* get reports 1/2 for a two-step plan whose first step was marked completed
C29_Witness ==
    /\ Succeeded("get")
    /\ plan_call.outcome.value.plan_id = "p1"
    /\ plan_call.outcome.value.progress = [completed |-> 1, total |-> 2]
    /\ plans["p1"].step_statuses = <<"completed", "not_started">>

\* get reports 0/2 for a two-step plan no step of which was marked
C29_WitnessFresh ==
    /\ Succeeded("get")
    /\ plan_call.outcome.value.progress = [completed |-> 0, total |-> 2]
    /\ plan_call.outcome.value.lines[1].status = "not_started"
    /\ plan_call.outcome.value.lines[2].status = "not_started"

(***************************************************************************)
(* Properties of the LLM gateway.                                          *)
(***************************************************************************)
\* the call has ended, by returning or by raising
CallEnded == IF llm_call.op = "none" THEN FALSE ELSE llm_call.pc = "done"

\* every attempt of the call so far raised a transient error
AllTransient ==
    \A i \in 1..Len(llm_call.errors) : llm_call.errors[i] \in TransientErrors

C31_NonTransientNotRetried ==
    llm_call.op # "none" =>
        \A i \in 1..Len(llm_call.errors) :
            llm_call.errors[i] \notin TransientErrors =>
                /\ i = Len(llm_call.errors)
                /\ llm_call.pc = "done"
                /\ llm_call.outcome.kind = "raise"
                /\ llm_call.outcome.error = llm_call.errors[i]

\* C32: an attempt that is answered after k attempts that all failed
\* transiently, k from 0 to 5, ends the call, which returns that answer, after
\* exactly k + 1 attempts; a call that has returned made one attempt more
\* than it had failures, and the step after it is a new call.
C32_SuccessAfterFailures ==
    /\ [](CallEnded /\ llm_call.outcome.kind = "return" =>
              /\ Len(llm_call.errors) \in 0..5
              /\ llm_call.attempts = Len(llm_call.errors) + 1)
    /\ [][(AttemptDue /\ AllTransient) =>
              \A reply \in Replies :
                  (AttemptAnswered(reply) /\ ~EmptyResponse(llm_call, reply)) =>
                      /\ llm_call'.pc = "done"
                      /\ llm_call'.outcome = Answered(reply)
                      /\ llm_call'.attempts = Len(llm_call.errors) + 1
                      /\ llm_call'.errors = llm_call.errors]_vars
    /\ [][(CallEnded /\ llm_call.outcome.kind = "return") =>
              (llm_call'.attempts = 0 /\ llm_call'.outcome = Pending)]_vars

\* three transient failures, then an answer: the call returned it after four
\* attempts
C32_Witness ==
    /\ CallEnded
    /\ llm_call.errors = <<"RateLimitError", "APIError", "RateLimitError">>
    /\ llm_call.attempts = 4
    /\ llm_call.requests = 4
    /\ llm_call.outcome = Answered("text")

\* the sixth attempt was answered after five transient failures
C32_WitnessLast ==
    /\ CallEnded
    /\ Len(llm_call.errors) = 5
    /\ AllTransient
    /\ llm_call.attempts = 6
    /\ llm_call.outcome = Answered("text")

\* a message C33 calls invalid: its role is not one of the four roles, or it
\* has neither content nor tool_calls
Unacceptable(item) ==
    \/ item.role \notin Roles
    \/ item.content \in {None, Absent} /\ item.tool_calls \in {None, Absent}

\* the system messages and then the conversation messages of the call
AllMessages == llm_call.system_msgs \o llm_call.messages

\* the request made last carries all the messages of the call, the system
\* messages first, each with its role, content and tool calls
RequestInOrder ==
    /\ Len(llm_call.request) = Len(AllMessages)
    /\ \A i \in 1..Len(AllMessages) :
           /\ llm_call.request[i].role = AllMessages[i].role
           /\ AllMessages[i].content # None =>
                  llm_call.request[i].content = AllMessages[i].content
           /\ AllMessages[i].tool_calls # None =>
                  llm_call.request[i].tool_calls = AllMessages[i].tool_calls

\* C33: a call with an invalid message among its conversation or system
\* messages never issues a request and, once an attempt of it has failed, has
\* ended with the error of the validation (InvalidMessage, the ValueError of
\* format_messages); every request of a call with valid messages carries the
\* system messages first and then the conversation messages, in their order.
C33_ValidatedBeforeRequest ==
    llm_call.op # "none" =>
        /\ (\E i \in 1..Len(AllMessages) : Unacceptable(AllMessages[i])) =>
               /\ llm_call.requests = 0
               /\ llm_call.errors # <<>> =>
                      /\ llm_call.pc = "done"
                      /\ llm_call.outcome.kind = "raise"
                      /\ llm_call.outcome.error = "ValueError"
        /\ ((\A i \in 1..Len(AllMessages) : ~Unacceptable(AllMessages[i]))
                /\ llm_call.requests > 0) => RequestInOrder

\* what does hold: no request for a call with an invalid message, whose
\* attempts all fail with ValueError, and the claimed order in every request
C33_NoRequestAndOrder ==
    llm_call.op # "none" =>
        /\ (\E i \in 1..Len(AllMessages) : Unacceptable(AllMessages[i])) =>
               /\ llm_call.requests = 0
               /\ llm_call.request = <<>>
               /\ llm_call.outcome.kind # "return"
               /\ \A k \in 1..Len(llm_call.errors) : llm_call.errors[k] = "ValueError"
        /\ ((\A i \in 1..Len(AllMessages) : ~Unacceptable(AllMessages[i]))
                /\ llm_call.requests > 0) => RequestInOrder

(***************************************************************************)
(* Properties of the gateway constructions.                                *)
(***************************************************************************)
\* C34: a construction returns the instance kept under its name; an instance
\* once kept under a name stays there with its identity, model, temperature,
\* credentials and endpoint, whatever configuration later constructions with
\* that name pass; the instances of distinct names are distinct; an instance
\* holds the profile that the configuration of its first construction gives
\* its name.
C34_OneInstancePerName ==
    /\ [](\A a \in DOMAIN instances, b \in DOMAIN instances :
              a # b => instances[a].id # instances[b].id)
    /\ [][/\ llm_new'.instance = instances'[llm_new'.config_name]
          /\ \A name \in DOMAIN instances :
                 name \in DOMAIN instances' /\ instances'[name] = instances[name]
          /\ llm_new'.config_name \notin DOMAIN instances =>
                 LET settings == Profile(llm_new'.llm_config, llm_new'.config_name)
                     made == llm_new'.instance
                 IN  /\ made.model = settings.model
                     /\ made.temperature = settings.temperature
                     /\ made.api_key = settings.api_key
                     /\ made.base_url = settings.base_url]_vars

\* a gateway first built for "vision" with the second configuration, which has
\* no such profile, was asked for again with the first one and is unchanged
C34_Witness ==
    /\ llm_new # NoCall
    /\ llm_new.config_name = "vision"
    /\ llm_new.llm_config = [default |-> SettingsA, vision |-> SettingsB]
    /\ llm_new.instance.model = "claude"
    /\ llm_new.instance.api_key = "key-b"
    /\ DOMAIN instances = {"vision", "default"}
    /\ instances["default"].id = 2

(***************************************************************************)
(* Properties of the step budget across runs.                              *)
(***************************************************************************)
\* the step enters step(): the loop body starts
StepInvoked == pc = "loop" /\ pc' = "think"

\* C35: no step of any run ever lowers or resets current_step; it changes
\* only when step() is invoked, by exactly one, and step() is invoked only
\* while current_step < max_steps, so that the invocations of all the runs on
\* the agent together are at most max_steps and a step that goes on to raise
\* has been counted; from current_step >= max_steps on no step() is invoked,
\* and a run that invoked none with the budget used up returned the
\* max-steps notice alone.
C35_BudgetAcrossRuns ==
    /\ [][current_step' >= current_step]_vars
    /\ [][current_step' # current_step => StepInvoked]_vars
    /\ [][StepInvoked =>
              /\ current_step < max_steps
              /\ current_step' = current_step + 1
              /\ step_calls' = step_calls + 1]_vars
    /\ [][step_calls' # step_calls => (StepInvoked \/ step_calls' = 0)]_vars
    /\ [][current_step >= max_steps => ~StepInvoked]_vars
    /\ [](step_calls <= max_steps)
    /\ []((RunReturned /\ step_calls = 0 /\ current_step >= max_steps) =>
              ret.value = <<MaxStepsNotice(max_steps)>>)

\* steps have been made on the agent, one of which tripped the stuck detector,
\* and the budget is used up: the run made after them invoked no step and
\* returned the notice alone
C35_Witness ==
    /\ RunReturned
    /\ step_calls = 0
    /\ current_step = MaxSteps
    /\ max_steps = MaxSteps
    /\ warnings >= 1
    /\ ret.value = <<MaxStepsNotice(max_steps)>>

\* the max-steps notices among the lines of a transcript
Notices(lines) == SelectSeq(lines, LAMBDA r : r.kind = "max_steps")

\* C36: when the loop of a run has been left, and in what the run returns,
\* the transcript holds the max-steps notice exactly when current_step >=
\* max_steps, whatever the state; it then holds it once, as its last line,
\* naming max_steps.  So a run whose step numbered max_steps set FINISHED
\* returns a transcript ending with the notice, and a run that is FINISHED
\* with current_step < max_steps returns one without it.
C36_NoticeIffBudgetUsedUp ==
    /\ pc = "exit" =>
           IF current_step >= max_steps
           THEN /\ Notices(results) = <<MaxStepsNotice(max_steps)>>
                /\ LastLine(results) = MaxStepsNotice(max_steps)
           ELSE /\ Notices(results) = <<>>
                /\ state = "FINISHED"
    /\ RunReturned =>
           IF current_step >= max_steps
           THEN /\ Notices(ret.value) = <<MaxStepsNotice(max_steps)>>
                /\ LastLine(ret.value) = MaxStepsNotice(max_steps)
           ELSE Notices(ret.value) = <<>>
    /\ pc \in {"loop", "think", "act", "after_step"} => Notices(results) = <<>>

\* the last permitted step of a run of two steps set FINISHED, and the
\* transcript of the run ends with the notice
C36_Witness ==
    /\ pc = "exit"
    /\ state = "FINISHED"
    /\ step_calls = 2
    /\ current_step = max_steps
    /\ Len(results) = 3
    /\ LastLine(results) = MaxStepsNotice(max_steps)

\* a run was declared finished by its first step with budget left: no notice
C36_WitnessEarly ==
    /\ pc = "exit"
    /\ state = "FINISHED"
    /\ step_calls = 1
    /\ current_step < max_steps
    /\ results = <<StepRecord(current_step, "acted")>>

\* C37: a run() in progress eventually exits, by returning or by raising,
\* and never invokes step() more than max_steps times; the step after step()
\* in which the stuck detector fires goes back to the loop, as it does when
\* the detector does not fire, with the state, current_step and the
\* transcript record of the step as they would be otherwise.
C37_RunTerminates ==
    /\ (pc # "idle") ~> RunExited
    /\ [](step_calls <= max_steps /\ step_calls <= current_step)
    /\ [][(pc = "after_step" /\ pc' # pc) =>
              /\ pc' = "loop"
              /\ state' = state
              /\ current_step' = current_step
              /\ results' = Append(results, StepRecord(current_step, step_result))
              /\ warnings' = warnings
                     + (IF is_stuck(messages, duplicate_threshold) THEN 1 ELSE 0)]_vars

\* a run in which the stuck detector fired twice has gone on to use its
\* whole budget and has returned
C37_Witness ==
    /\ RunReturned
    /\ warnings = 2
    /\ step_calls = MaxSteps
    /\ current_step = max_steps
    /\ state = "IDLE"

(***************************************************************************)
(* Properties of the whole ledger.                                         *)
(***************************************************************************)
\* the plans that list and get render as the active one
ActivePlans == {id \in DOMAIN plans : plans[id].plan_id = current_plan_id}

\* C38: the active pointer is unset or the id of a plan in the ledger; every
\* plan is stored under its own id, so that at most one plan is rendered as
\* active, and exactly one when the pointer is set.
C38_ActivePointerValid ==
    /\ current_plan_id = None \/ current_plan_id \in DOMAIN plans
    /\ \A id \in DOMAIN plans : plans[id].plan_id = id
    /\ Cardinality(ActivePlans) <= 1
    /\ current_plan_id # None => ActivePlans = {current_plan_id}

\* two plans are stored, the pointer names the first, and list reported both
\* plans, that one alone as active
C38_Witness ==
    /\ Succeeded("list")
    /\ DOMAIN plans = PlanIds
    /\ current_plan_id = "p1"
    /\ plans["p2"].steps = <<"a", "b">>
    /\ {entry.plan_id : entry \in {e \in plan_call.outcome.value : e.active}} = {"p1"}

\* the classes of the failures of the ledger commands
LedgerFailures ==
    {"MissingField", "DuplicateId", "NotFound", "NoActivePlan", "IndexOutOfRange",
     "UnknownCommand"}

\* C39: a step that ends a ledger command with a failure leaves the plans,
\* with every title, step, status and note, and the active pointer as they
\* were; the failure is of one of the six classes, and the same call made
\* through the Tool Registry returns, without raising, a ToolResult whose
\* error is that failure and which has no output.
C39_FailuresChangeNothing ==
    [][plan_call'.outcome.kind = "raise" =>
           /\ plans' = plans
           /\ current_plan_id' = current_plan_id
           /\ plan_call'.outcome.error \in LedgerFailures
           /\ plan_call'.registry.kind = "return"
           /\ plan_call'.registry.value.error = plan_call'.outcome.error
           /\ plan_call'.registry.value.output = None]_vars

\* mark_step was turned away for its index on a plan that had progressed, and
\* the registry hands the failure back as data
C39_Witness ==
    /\ Failed("mark_step", "IndexOutOfRange")
    /\ plan_call.registry = Returned(ToolFailure("IndexOutOfRange"))
    /\ current_plan_id = "p1"
    /\ plans["p1"].step_statuses = <<"completed">>
    /\ plans["p1"].step_notes = <<"n">>

\* a command that is none of the seven was turned away
C39_WitnessUnknown ==
    /\ Failed("unknown", "UnknownCommand")
    /\ DOMAIN plans = PlanIds

\* the smaller of two lengths
Min(a, b) == IF a <= b THEN a ELSE b

\* what C40 asks of a step that ends update(plan_id, title, steps) on the
\* plan old, which becomes the plan now
KeptByPosition(old, now, steps) ==
    /\ steps = NoList =>
           /\ now.steps = old.steps
           /\ now.step_statuses = old.step_statuses
           /\ now.step_notes = old.step_notes
    /\ steps # NoList =>
           \A i \in 1..Min(Len(old.steps), Len(steps)) :
               /\ i \in DOMAIN now.step_statuses
               /\ i \in DOMAIN now.step_notes
               /\ now.step_statuses[i] = old.step_statuses[i]
               /\ now.step_notes[i] = old.step_notes[i]

\* C40: an update of an existing plan leaves the status and the note at
\* every index below min(old length, new length) as they were, whatever the
\* texts of the old and new steps at that index, and leaves steps, statuses
\* and notes alone when steps is omitted; a mark_step that succeeds leaves
\* the status of its step alone when step_status is omitted and the note of
\* its step alone when step_notes is omitted.
C40_KeptByPosition ==
    /\ [][(plan_call'.op = "update" /\ plan_call'.outcome.kind = "return") =>
           \A plan_id \in PlanIds, title \in TitleArgs, steps \in StepLists :
               \/ /\ plan_id \in DOMAIN plans
                  /\ plan_id \in DOMAIN plans'
                  /\ KeptByPosition(plans[plan_id], plans'[plan_id], steps)
               \/ ~Update(plan_id, title, steps)]_vars
    /\ [][(plan_call'.op = "mark_step" /\ plan_call'.outcome.kind = "return") =>
           \A plan_id \in MarkIdArgs, step_index \in IndexArgs,
              step_status \in StatusArgs, step_notes \in NoteArgs :
               LET id == IF plan_id = None THEN current_plan_id ELSE plan_id
                   at == step_index + 1
               IN  \/ /\ id \in DOMAIN plans
                      /\ at \in 1..Len(plans[id].steps)
                      /\ step_status = None =>
                             plans'[id].step_statuses[at] = plans[id].step_statuses[at]
                      /\ step_notes = None =>
                             plans'[id].step_notes[at] = plans[id].step_notes[at]
                   \/ ~MarkStep(plan_id, step_index, step_status, step_notes)]_vars

\* an update has given a plan two steps, and the status and the note of its
\* first step are those of a step that was marked
C40_Witness ==
    /\ Succeeded("update")
    /\ DOMAIN plans = {"p1"}
    /\ plans["p1"].steps = <<"a", "b">>
    /\ plans["p1"].step_statuses = <<"completed", "not_started">>
    /\ plans["p1"].step_notes = <<"n", "">>

====
